---- MODULE Spec2Model ----
(***************************************************************************)
(* Document store of FormTool.py: the CSV encoder (save_document_csv), the *)
(* decoder (load_quote_from_csv), the totals engine (compute_totals) and   *)
(* the two flows that use them (create_quote_or_invoice and                *)
(* edit_existing_quote with edit_quote_headers_interactive).               *)
(*                                                                         *)
(* A file is a sequence of rows, a row a sequence of text cells, as        *)
(* csv.writer writes them and csv.reader returns them.  Numbers are        *)
(* floating-point values of a scaled-down binary format with MantBits      *)
(* significant bits and round-to-nearest-even, so that rounding in         *)
(* hours * rate and in sum() is part of the model.                         *)
(***************************************************************************)
EXTENDS Integers, Sequences, FiniteSets, TLC

\* ------------------------------------------------------------------ bounds
MantBits == 3
MaxLines == 2
MaxSumLines == 3
MaxAllowances == 2
MaxFiles == 2
MaxHtmlFiles == 6

\* --------------------------------------------------------- text primitives
MARKER == "Owner Allowances (client purchases directly)"

RECURSIVE LStrip(_)
LStrip(s) ==
    IF Len(s) > 0 /\ Head(s) = " " THEN LStrip(Tail(s)) ELSE s

RECURSIVE RStrip(_)
RStrip(s) ==
    IF Len(s) > 0 /\ SubSeq(s, Len(s), Len(s)) = " "
    THEN RStrip(SubSeq(s, 1, Len(s) - 1))
    ELSE s

\* str.strip()
Strip(s) == RStrip(LStrip(s))

Digits == {"0", "1", "2", "3", "4", "5", "6", "7", "8", "9"}

DigitVal(c) ==
    CASE c = "0" -> 0 [] c = "1" -> 1 [] c = "2" -> 2 [] c = "3" -> 3
      [] c = "4" -> 4 [] c = "5" -> 5 [] c = "6" -> 6 [] c = "7" -> 7
      [] c = "8" -> 8 [] c = "9" -> 9

IsDigits(s) ==
    Len(s) > 0 /\ \A i \in 1..Len(s) : SubSeq(s, i, i) \in Digits

RECURSIVE DigitsVal(_, _)
DigitsVal(s, acc) ==
    IF Len(s) = 0 THEN acc
    ELSE DigitsVal(Tail(s), 10 * acc + DigitVal(Head(s)))

\* position of the first occurrence of character c in s, 0 when absent
RECURSIVE IndexFrom(_, _, _)
IndexFrom(s, c, i) ==
    IF i > Len(s) THEN 0
    ELSE IF SubSeq(s, i, i) = c THEN i
    ELSE IndexFrom(s, c, i + 1)

IndexOf(s, c) == IndexFrom(s, c, 1)

\* ------------------------------------------------- floating-point numbers
RECURSIVE Pow2(_)
Pow2(n) == IF n = 0 THEN 1 ELSE 2 * Pow2(n - 1)

\* spacing of the representable numbers around n
RECURSIVE UlpFrom(_, _)
UlpFrom(n, u) == IF n < Pow2(MantBits) * u THEN u ELSE UlpFrom(n, 2 * u)

\* the representable number nearest to n, ties to the even mantissa
Round(n) ==
    LET u == UlpFrom(n, 1)
        q == n \div u
        r == n % u
    IN  IF 2 * r < u THEN q * u
        ELSE IF 2 * r > u THEN (q + 1) * u
        ELSE IF q % 2 = 0 THEN q * u
        ELSE (q + 1) * u

Representable(n) == Round(n) = n

\* float + float and float * float
FAdd(a, b) == Round(a + b)
FMul(a, b) == Round(a * b)

\* str(float) as csv.writer writes a float cell: 8.0 -> "8.0"
FloatStr(x) == ToString(x) \o ".0"

AllZeros(s) == \A i \in 1..Len(s) : SubSeq(s, i, i) = "0"

\* float(text): surrounding blanks are ignored; "8", "8." and "8.0" are
\* numbers; anything else raises ValueError (ok = FALSE)
ParseFloat(text) ==
    LET t == Strip(text)
        dot == IndexOf(t, ".")
        ip == IF dot = 0 THEN t ELSE SubSeq(t, 1, dot - 1)
        fp == IF dot = 0 THEN "" ELSE SubSeq(t, dot + 1, Len(t))
    IN  IF IsDigits(ip) /\ (fp = "" \/ (IsDigits(fp) /\ AllZeros(fp)))
        THEN [ok |-> TRUE, v |-> Round(DigitsVal(ip, 0))]
        ELSE [ok |-> FALSE, v |-> 0]

\* try: float(text)  except ValueError: 0.0
FloatOrZero(text) == ParseFloat(text).v

\* ------------------------------------------------------------------ dates
\* a date is <<month, day, year>>
Pad2(n) == IF n < 10 THEN "0" \o ToString(n) ELSE ToString(n)

\* format_date: strftime("%m-%d-%Y")
format_date(d) == Pad2(d[1]) \o "-" \o Pad2(d[2]) \o "-" \o ToString(d[3])

IsLeap(y) == (y % 4 = 0 /\ y % 100 # 0) \/ y % 400 = 0

DaysIn(m, y) ==
    IF m = 2 THEN (IF IsLeap(y) THEN 29 ELSE 28)
    ELSE IF m \in {4, 6, 9, 11} THEN 30 ELSE 31

\* a parser that takes any text it cannot read for the first day of 2000
parse_mmddyyyy_Lenient(text) ==
    LET d1 == IndexOf(text, "-")
        mm == IF d1 = 0 THEN "" ELSE SubSeq(text, 1, d1 - 1)
        rest == IF d1 = 0 THEN "" ELSE SubSeq(text, d1 + 1, Len(text))
        d2 == IndexOf(rest, "-")
        dd == IF d2 = 0 THEN "" ELSE SubSeq(rest, 1, d2 - 1)
        yy == IF d2 = 0 THEN "" ELSE SubSeq(rest, d2 + 1, Len(rest))
        wellFormed == /\ IsDigits(mm) /\ Len(mm) <= 2
                      /\ IsDigits(dd) /\ Len(dd) <= 2
                      /\ IsDigits(yy) /\ Len(yy) = 4
        m == DigitsVal(mm, 0)
        d == DigitsVal(dd, 0)
        y == DigitsVal(yy, 0)
    IN  IF wellFormed /\ m \in 1..12 /\ y >= 1 /\ d \in 1..DaysIn(m, y)
        THEN [ok |-> TRUE, v |-> <<m, d, y>>]
        ELSE [ok |-> TRUE, v |-> <<1, 1, 2000>>]

\* parse_mmddyyyy: strptime(text, "%m-%d-%Y"); ok = FALSE is ValueError
parse_mmddyyyy(text) ==
    LET d1 == IndexOf(text, "-")
        mm == IF d1 = 0 THEN "" ELSE SubSeq(text, 1, d1 - 1)
        rest == IF d1 = 0 THEN "" ELSE SubSeq(text, d1 + 1, Len(text))
        d2 == IndexOf(rest, "-")
        dd == IF d2 = 0 THEN "" ELSE SubSeq(rest, 1, d2 - 1)
        yy == IF d2 = 0 THEN "" ELSE SubSeq(rest, d2 + 1, Len(rest))
        wellFormed == /\ IsDigits(mm) /\ Len(mm) <= 2
                      /\ IsDigits(dd) /\ Len(dd) <= 2
                      /\ IsDigits(yy) /\ Len(yy) = 4
        m == DigitsVal(mm, 0)
        d == DigitsVal(dd, 0)
        y == DigitsVal(yy, 0)
    IN  IF wellFormed /\ m \in 1..12 /\ y >= 1 /\ d \in 1..DaysIn(m, y)
        THEN [ok |-> TRUE, v |-> <<m, d, y>>]
        ELSE [ok |-> FALSE, v |-> <<1, 1, 1>>]

\* ------------------------------------------------------------- data model
\* EstimateLine
EstimateLine(section, description, worker_type, hours, rate, detail) ==
    [section |-> section, description |-> description,
     worker_type |-> worker_type, hours |-> hours, rate |-> rate,
     detail |-> detail]

\* EstimateLine.total
LineTotal(l) == FMul(l.hours, l.rate)

\* OwnerAllowance
OwnerAllowance(description, quantity, unit_cost) ==
    [description |-> description, quantity |-> quantity,
     unit_cost |-> unit_cost]

\* OwnerAllowance.total
AllowanceTotal(a) == FMul(a.quantity, a.unit_cost)

\* sum(l.total for l in lines): left-to-right accumulation from 0
RECURSIVE SumTotals(_, _)
SumTotals(lines, acc) ==
    IF lines = <<>> THEN acc
    ELSE SumTotals(Tail(lines), FAdd(acc, LineTotal(Head(lines))))

\* compute_totals with the sum started at the second line item
compute_totals_SkipsFirst(lines, receipts_total) ==
    LET subtotal == IF lines = <<>> THEN 0 ELSE SumTotals(Tail(lines), 0)
    IN  [subtotal |-> subtotal, receipts_total |-> receipts_total,
         grand_total |-> FAdd(subtotal, receipts_total)]

compute_totals(lines, receipts_total) ==
    LET contractor_subtotal == SumTotals(lines, 0)
    IN  [subtotal |-> contractor_subtotal,
         receipts_total |-> receipts_total,
         grand_total |-> FAdd(contractor_subtotal, receipts_total)]

\* ---------------------------------------------------------------- encoder
\* name of the file save_document_csv writes in the job folder
CsvName(job_id, doc_type, doc_date) ==
    job_id \o "_" \o doc_type \o "_" \o format_date(doc_date) \o ".csv"

LineRow(l) ==
    <<l.section, l.description, l.detail, l.worker_type,
      FloatStr(l.hours), FloatStr(l.rate), FloatStr(LineTotal(l))>>

AllowanceRow(a) ==
    <<a.description, FloatStr(a.quantity), FloatStr(a.unit_cost),
      FloatStr(AllowanceTotal(a))>>

\* allowance_total = 0.0; allowance_total += a.total
RECURSIVE SumAllowances(_, _)
SumAllowances(allowances, acc) ==
    IF allowances = <<>> THEN acc
    ELSE SumAllowances(Tail(allowances),
                       FAdd(acc, AllowanceTotal(Head(allowances))))

HeaderRows(doc) ==
    << <<"DocType", doc.doc_type>>,
       <<"JobID", doc.job_id>>,
       <<"Project", doc.project_name>>,
       <<"Client", doc.client_name>>,
       <<"Address", doc.project_address>>,
       <<"Date", format_date(doc.doc_date)>>,
       <<"ReceiptsTotal", FloatStr(doc.totals.receipts_total)>>,
       <<>>,
       <<"Section", "Description", "FullDescription", "WorkerType",
         "Hours/Qty", "Rate/UnitPrice", "LineTotal">> >>

\* the totals rows with the GrandTotal row written before the Subtotal row
TotalsRows_GrandTotalFirst(doc) ==
    << <<>>,
       <<"GrandTotal", "", "", "", "", "",
         FloatStr(doc.totals.grand_total)>>,
       <<"Subtotal", "", "", "", "", "", FloatStr(doc.totals.subtotal)>> >>

TotalsRows(doc) ==
    << <<>>,
       <<"Subtotal", "", "", "", "", "", FloatStr(doc.totals.subtotal)>>,
       <<"GrandTotal", "", "", "", "", "",
         FloatStr(doc.totals.grand_total)>> >>

\* the allowance block written for an empty list too
AllowanceBlock_Always(allowances) ==
    << <<>>,
       <<MARKER>>,
       <<"Description", "Quantity", "EstUnitCost", "EstTotal">> >>
    \o [k \in 1..Len(allowances) |-> AllowanceRow(allowances[k])]
    \o << <<"OwnerAllowancesTotal", "", "", "",
            FloatStr(SumAllowances(allowances, 0))>> >>

AllowanceBlock(allowances) ==
    IF allowances = <<>> THEN <<>>
    ELSE << <<>>,
            <<MARKER>>,
            <<"Description", "Quantity", "EstUnitCost", "EstTotal">> >>
         \o [k \in 1..Len(allowances) |-> AllowanceRow(allowances[k])]
         \o << <<"OwnerAllowancesTotal", "", "", "",
                 FloatStr(SumAllowances(allowances, 0))>> >>

\* the rows save_document_csv writes for a document
\* doc = [job_id, doc_type, project_name, project_address, client_name,
\*        lines, totals, allowances, doc_date]
save_document_csv(doc) ==
    HeaderRows(doc)
    \o [k \in 1..Len(doc.lines) |-> LineRow(doc.lines[k])]
    \o TotalsRows(doc)
    \o AllowanceBlock(doc.allowances)

\* ---------------------------------------------------------------- decoder
Today == <<11, 6, 2026>>

Terminators == {"Subtotal", "GrandTotal", MARKER}

Cell(r, k) == IF Len(r) >= k THEN Strip(r[k]) ELSE ""

\* float(r[k]) if len(r) > k-1 and r[k].strip() != "" else 0.0
NumCell(r, k) ==
    IF Len(r) >= k /\ Strip(r[k]) # "" THEN FloatOrZero(r[k]) ELSE 0

\* a line row read with the stored LineTotal taken as the quantity of a
\* unit price
RowToLine_UsesStoredTotal(r) ==
    EstimateLine(Cell(r, 1), Cell(r, 2), Cell(r, 4),
                 NumCell(r, 7), 1, Cell(r, 3))

RowToLine(r) ==
    EstimateLine(Cell(r, 1), Cell(r, 2), Cell(r, 4),
                 NumCell(r, 5), NumCell(r, 6), Cell(r, 3))

AllBlank(r) == \A k \in 1..Len(r) : Strip(r[k]) = ""

\* the inner loop over the line-item table, from row i on
RECURSIVE LineTable(_, _, _)
\* the inner loop with an empty row passed over like a row of blank cells
LineTable_SkipsEmptyRows(rows, i, lines) ==
    IF i > Len(rows) THEN [i |-> i, lines |-> lines]
    ELSE LET r == rows[i]
         IN  IF r # <<>> /\ Strip(r[1]) \in Terminators
             THEN [i |-> i, lines |-> lines]
             ELSE IF AllBlank(r)
             THEN LineTable(rows, i + 1, lines)
             ELSE LineTable(rows, i + 1, Append(lines, RowToLine(r)))

LineTable(rows, i, lines) ==
    IF i > Len(rows) THEN [i |-> i, lines |-> lines]
    ELSE LET r == rows[i]
         IN  IF r = <<>> \/ Strip(r[1]) \in Terminators
             THEN [i |-> i, lines |-> lines]
             ELSE IF AllBlank(r)
             THEN LineTable(rows, i + 1, lines)
             ELSE LineTable(rows, i + 1, Append(lines, RowToLine(r)))

\* the inner loop over the allowance rows, from row i on
RECURSIVE AllowanceTable(_, _, _)
AllowanceTable(rows, i, allowances) ==
    IF i > Len(rows) THEN [i |-> i, allowances |-> allowances]
    ELSE LET r == rows[i]
         IN  IF r = <<>>
             THEN AllowanceTable(rows, i + 1, allowances)
             ELSE IF Strip(r[1]) = "OwnerAllowancesTotal"
             THEN [i |-> i, allowances |-> allowances]
             ELSE AllowanceTable(rows, i + 1,
                      Append(allowances,
                             OwnerAllowance(Cell(r, 1), NumCell(r, 2),
                                            NumCell(r, 3))))

\* the outer loop, from row i on; acc = [meta, lines, totals, allowances]
RECURSIVE Scan(_, _, _)
Scan(rows, i, acc) ==
    IF i > Len(rows) THEN acc
    ELSE LET row == rows[i]
             key == Strip(row[1])
             val == Strip(row[2])
         IN
         IF row = <<>> THEN Scan(rows, i + 1, acc)
         ELSE IF key = "DocType" /\ Len(row) > 1
         THEN Scan(rows, i + 1, [acc EXCEPT !.meta.doc_type = val])
         ELSE IF key = "JobID" /\ Len(row) > 1
         THEN Scan(rows, i + 1, [acc EXCEPT !.meta.job_id = val])
         ELSE IF key = "Project" /\ Len(row) > 1
         THEN Scan(rows, i + 1, [acc EXCEPT !.meta.project_name = val])
         ELSE IF key = "Client" /\ Len(row) > 1
         THEN Scan(rows, i + 1, [acc EXCEPT !.meta.client_name = val])
         ELSE IF key = "Address" /\ Len(row) > 1
         THEN Scan(rows, i + 1, [acc EXCEPT !.meta.project_address = val])
         ELSE IF key = "Date" /\ Len(row) > 1
         THEN Scan(rows, i + 1,
                   IF parse_mmddyyyy(val).ok
                   THEN [acc EXCEPT !.meta.doc_date = parse_mmddyyyy(val).v]
                   ELSE acc)
         ELSE IF key = "ReceiptsTotal" /\ Len(row) > 1
         THEN Scan(rows, i + 1,
                   [acc EXCEPT !.totals.receipts_total = FloatOrZero(row[2])])
         ELSE IF key = "Section"
         THEN LET t == LineTable(rows, i + 1, acc.lines)
              IN  Scan(rows, t.i, [acc EXCEPT !.lines = t.lines])
         ELSE IF key = "Subtotal"
         THEN Scan(rows, i + 1,
                   [acc EXCEPT !.totals.subtotal = FloatOrZero(row[Len(row)])])
         ELSE IF key = "GrandTotal"
         THEN Scan(rows, i + 1,
                   [acc EXCEPT
                      !.totals.grand_total = FloatOrZero(row[Len(row)])])
         ELSE IF key = MARKER
         THEN LET t == AllowanceTable(rows, i + 2, acc.allowances)
              IN  Scan(rows, t.i + 1, [acc EXCEPT !.allowances = t.allowances])
         ELSE Scan(rows, i + 1, acc)

\* an empty dict
EmptyDict == [k \in {} |-> 0]

\* the four values of load_quote_from_csv before any row is read
NothingLoaded ==
    [meta |-> EmptyDict, lines |-> <<>>, totals |-> EmptyDict,
     allowances |-> <<>>]

NoFile == "NoFile"

\* load_quote_from_csv returning the defaults for a path that does not exist
load_quote_from_csv_ZeroedWhenMissing(file) ==
    IF file = NoFile
    THEN [meta |-> [doc_type |-> "quote", job_id |-> "",
                    project_name |-> "", client_name |-> "",
                    project_address |-> "", doc_date |-> Today],
          lines |-> <<>>,
          totals |-> [subtotal |-> 0, receipts_total |-> 0,
                      grand_total |-> 0],
          allowances |-> <<>>]
    ELSE Scan(file, 1,
              [meta |-> [doc_type |-> "quote", job_id |-> "",
                         project_name |-> "", client_name |-> "",
                         project_address |-> "", doc_date |-> Today],
               lines |-> <<>>,
               totals |-> [subtotal |-> 0, receipts_total |-> 0,
                           grand_total |-> 0],
               allowances |-> <<>>])

\* load_quote_from_csv on the content of a path (NoFile: no such path)
load_quote_from_csv(file) ==
    IF file = NoFile
    THEN [meta |-> EmptyDict, lines |-> <<>>, totals |-> EmptyDict,
          allowances |-> <<>>]
    ELSE Scan(file, 1,
              [meta |-> [doc_type |-> "quote", job_id |-> "",
                         project_name |-> "", client_name |-> "",
                         project_address |-> "", doc_date |-> Today],
               lines |-> <<>>,
               totals |-> [subtotal |-> 0, receipts_total |-> 0,
                           grand_total |-> 0],
               allowances |-> <<>>])

\* ------------------------------------------------------------ job folder
\* a folder (and a dict) is a function from names to contents
Put(f, k, v) == [x \in DOMAIN f \cup {k} |-> IF x = k THEN v ELSE f[x]]

Drop(f, k) == [x \in DOMAIN f \ {k} |-> f[x]]

FileOrNone(folder, name) ==
    IF name \in DOMAIN folder THEN folder[name] ELSE NoFile

\* sub in s
RECURSIVE ContainsFrom(_, _, _)
ContainsFrom(s, sub, i) ==
    IF i + Len(sub) - 1 > Len(s) THEN FALSE
    ELSE IF SubSeq(s, i, i + Len(sub) - 1) = sub THEN TRUE
    ELSE ContainsFrom(s, sub, i + 1)

EndsWith(s, suffix) ==
    Len(s) >= Len(suffix)
    /\ SubSeq(s, Len(s) - Len(suffix) + 1, Len(s)) = suffix

\* the files edit_existing_quote lists
IsQuoteCsv(name) == EndsWith(name, ".csv") /\ ContainsFrom(name, "_quote_", 1)

\* stem + suffix + ext
AddSuffix(name, suffix) ==
    SubSeq(name, 1, Len(name) - 4) \o suffix
    \o SubSeq(name, Len(name) - 3, Len(name))

BackupName(name) == AddSuffix(name, "_original")

\* stem + suffix + ext of an HTML file
HtmlAddSuffix(name, suffix) ==
    SubSeq(name, 1, Len(name) - 5) \o suffix \o ".html"

\* a backup that is copied again at every call
backup_original_quote_files_Overwrites(folder, name) ==
    IF name \notin DOMAIN folder THEN folder
    ELSE Put(folder, BackupName(name), folder[name])

\* backup_original_quote_files, CSV part: copy once, never overwrite
backup_original_quote_files(folder, name) ==
    IF name \notin DOMAIN folder \/ BackupName(name) \in DOMAIN folder
    THEN folder
    ELSE Put(folder, BackupName(name), folder[name])

\* os.replace(path, new_path)
Replace(folder, name, newName) ==
    IF name = newName \/ name \notin DOMAIN folder THEN folder
    ELSE Put(Drop(folder, name), newName, folder[name])

\* the characters sanitize_name keeps
SafeChars ==
    " -._0123456789ABCDEFGHIJKLMNOPQRSTUVWXYZabcdefghijklmnopqrstuvwxyz"

SafeSet == {SubSeq(SafeChars, i, i) : i \in 1..Len(SafeChars)}

\* "".join(c for c in name if c.isalnum() or c in (" ", "_", "-", "."))
RECURSIVE KeepSafe(_)
KeepSafe(s) ==
    IF \A i \in 1..Len(s) : SubSeq(s, i, i) \in SafeSet THEN s
    ELSE IF Head(s) \in SafeSet THEN Head(s) \o KeepSafe(Tail(s))
    ELSE KeepSafe(Tail(s))

\* str.replace(" ", "_")
RECURSIVE Underscored(_)
Underscored(s) ==
    LET at == IndexOf(s, " ")
    IN  IF at = 0 THEN s
        ELSE SubSeq(s, 1, at - 1) \o "_"
             \o Underscored(SubSeq(s, at + 1, Len(s)))

\* sanitize_name
sanitize_name(name) ==
    LET safe == Underscored(Strip(KeepSafe(name)))
    IN  IF safe = "" THEN "Job" ELSE safe

\* the file name of save_estimate_html
HtmlName(job_id, doc_type, project_name, doc_date) ==
    job_id \o "_" \o doc_type \o "_" \o sanitize_name(project_name)
    \o "_" \o format_date(doc_date) \o ".html"

\* what render_estimate_html shows: the values it is given
render_estimate_html(doc, hide_line_prices) ==
    [doc |-> doc, hide_line_prices |-> hide_line_prices]

LogoName == "CienegaLogo.png"

Logo == [logo |-> TRUE]

\* save_estimate_html in which a failing logo copy ends the function
save_estimate_html_StopsOnFailure(files, name, text, logoFails) ==
    IF LogoName \notin DOMAIN files /\ logoFails THEN files
    ELSE Put(Put(files, LogoName, Logo), name, text)

\* save_estimate_html: the logo is copied once, unless the copy fails, and
\* the HTML file is written
save_estimate_html(files, name, text, logoFails) ==
    LET withLogo == IF LogoName \in DOMAIN files \/ logoFails THEN files
                    ELSE Put(files, LogoName, Logo)
    IN  Put(withLogo, name, text)

\* h_stem + "_original" + h_ext
HtmlBackupName(name) ==
    SubSeq(name, 1, Len(name) - 5) \o "_original.html"

StartsWith(s, prefix) ==
    Len(s) >= Len(prefix) /\ SubSeq(s, 1, Len(prefix)) = prefix

\* backup_original_quote_files, HTML part: every HTML file whose name
\* starts with the stem of the CSV is copied once, unless the copy fails
backup_html(files, csv_name, copyFails) ==
    LET stem == SubSeq(csv_name, 1, Len(csv_name) - 4)
        todo == {f \in DOMAIN files :
                    /\ EndsWith(f, ".html") /\ StartsWith(f, stem)
                    /\ HtmlBackupName(f) \notin DOMAIN files}
    IN  IF copyFails THEN files
        ELSE [x \in DOMAIN files \cup {HtmlBackupName(f) : f \in todo} |->
                IF x \in DOMAIN files THEN files[x]
                ELSE files[CHOOSE f \in todo : HtmlBackupName(f) = x]]

\* ------------------------------------------------------ operator's inputs
JobId == "J0001"
DocTypes == {"quote", "invoice"}
Big == Pow2(MantBits)

Seqs(S, n) == UNION {[1..k -> S] : k \in 1..n}

\* build_quote_lines: a labor line is a lump sum (hours = 1)
QuoteLaborLine(section, desc, detail, amount, label) ==
    EstimateLine(section, desc, label, 1, amount, detail)

QuoteMaterialLine(section, desc, detail, qty, price, label) ==
    EstimateLine(section, desc, label, qty, price, detail)

\* build_invoice_lines
InvoiceLaborLine(section, desc, worker_type, rate, hours) ==
    EstimateLine(section, desc, worker_type, hours, rate, "")

InvoiceMaterialLine(section, desc, qty, price) ==
    EstimateLine(section, desc, "Material", qty, price, "")

\* build_scope_only_lines
ScopeLine(section, desc, label, detail, context_label) ==
    EstimateLine(section, desc, label, 0, 0,
                 IF context_label = "quote" THEN detail ELSE "")

QuoteEntries(wide) ==
    {QuoteLaborLine("", "Demo", "", Big, "Labor"),
     QuoteMaterialLine(MARKER, "Trim", "", 2, 1, "Material")}
    \cup (IF wide
          THEN {QuoteMaterialLine("Bath", "Tile", "12x12", 1, 1, "Material")}
          ELSE {})

InvoiceEntries ==
    {InvoiceLaborLine("", "Demo", "Custom", 1, 2),
     InvoiceMaterialLine("Bath", "Tile", 1, Big)}

ScopeEntries(context_label) ==
    {ScopeLine("", "Demo", "Labor", "all rooms", context_label),
     ScopeLine("Subtotal", "Paint", "Labor and Material", "", context_label)}

\* the line list the build_* function returns to create_quote_or_invoice
BuiltLines(doc_type, fixed, wide) ==
    IF fixed THEN Seqs(ScopeEntries(doc_type), IF wide THEN MaxLines ELSE 1)
    ELSE IF doc_type = "quote"
    THEN Seqs(QuoteEntries(wide), IF wide THEN MaxLines ELSE 1)
    ELSE Seqs(InvoiceEntries, IF wide THEN MaxLines ELSE 1)

AllowanceEntries == {OwnerAllowance("Fridge", 1, 2)}

\* allowances whose descriptions are labels of the file format
LabelledAllowances ==
    <<OwnerAllowance("OwnerAllowancesTotal", 1, 1),
      OwnerAllowance("Subtotal", 2, Big)>>

\* build_owner_allowances
BuiltAllowances(wide) ==
    {<<>>}
    \cup Seqs(AllowanceEntries, IF wide THEN MaxAllowances ELSE 1)
    \cup (IF wide THEN {LabelledAllowances} ELSE {})

\* choose_receipts_for_invoice: the receipts total of an invoice
ReceiptChoices(doc_type) == IF doc_type = "invoice" THEN {0, 2} ELSE {0}

\* what the operator types at a number prompt of an edit pass
NumberInputs == {"", "3", "x"}
TextInputs == {"", "Annex"}
RenameChoices == {"3"}
FixedAmounts == {5}

\* ------------------------------------------------------------ edit pass
KeepOr(raw, current) == IF raw # "" THEN raw ELSE current

\* float(raw) if it parses, otherwise the current value is kept
NumberOrKeep(raw, current) ==
    IF raw # "" /\ ParseFloat(raw).ok THEN ParseFloat(raw).v ELSE current

\* the edit pass with an empty grand-total answer keeping the current value
edit_quote_headers_interactive_KeepsGrand(meta, totals, inp) ==
    LET m == [meta EXCEPT
                !.project_name = KeepOr(inp.project, @),
                !.client_name = KeepOr(inp.client, @),
                !.project_address = KeepOr(inp.address, @),
                !.doc_date = IF inp.date # "" THEN parse_mmddyyyy(inp.date).v
                             ELSE @]
        rec == NumberOrKeep(inp.receipts, totals.receipts_total)
        sub == NumberOrKeep(inp.subtotal, totals.subtotal)
        grand == NumberOrKeep(inp.grand, totals.grand_total)
    IN  [meta |-> m,
         totals |-> [subtotal |-> sub, receipts_total |-> rec,
                     grand_total |-> grand]]

\* the edit pass with an empty subtotal answer taking the subtotal back
\* from the grand total
edit_quote_headers_interactive_DerivesSubtotal(meta, totals, inp) ==
    LET m == [meta EXCEPT
                !.project_name = KeepOr(inp.project, @),
                !.client_name = KeepOr(inp.client, @),
                !.project_address = KeepOr(inp.address, @),
                !.doc_date = IF inp.date # "" THEN parse_mmddyyyy(inp.date).v
                             ELSE @]
        rec == NumberOrKeep(inp.receipts, totals.receipts_total)
        sub == IF inp.subtotal # "" /\ ParseFloat(inp.subtotal).ok
               THEN ParseFloat(inp.subtotal).v
               ELSE IF totals.grand_total >= rec
               THEN totals.grand_total - rec ELSE 0
        grand == IF inp.grand # "" /\ ParseFloat(inp.grand).ok
                 THEN ParseFloat(inp.grand).v
                 ELSE FAdd(sub, rec)
    IN  [meta |-> m,
         totals |-> [subtotal |-> sub, receipts_total |-> rec,
                     grand_total |-> grand]]

\* inp = [project, client, address, date, receipts, subtotal, grand]:
\* the stripped answers to the prompts (date: the answer that ended the loop)
edit_quote_headers_interactive(meta, totals, inp) ==
    LET m == [meta EXCEPT
                !.project_name = KeepOr(inp.project, @),
                !.client_name = KeepOr(inp.client, @),
                !.project_address = KeepOr(inp.address, @),
                !.doc_date = IF inp.date # "" THEN parse_mmddyyyy(inp.date).v
                             ELSE @]
        rec == NumberOrKeep(inp.receipts, totals.receipts_total)
        sub == NumberOrKeep(inp.subtotal, totals.subtotal)
        grand == IF inp.grand # "" /\ ParseFloat(inp.grand).ok
                 THEN ParseFloat(inp.grand).v
                 ELSE FAdd(sub, rec)
    IN  [meta |-> m,
         totals |-> [subtotal |-> sub, receipts_total |-> rec,
                     grand_total |-> grand]]

\* ------------------------------------------------------------------ state
VARIABLES
    disk,    \* the CSV files of the job folder: name -> rows
    prov,    \* per file: the document it was written from (<<>> once the
             \* file was edited by hand) and the totals typed in by hand
    pc,      \* where edit_existing_quote waits: menu, selected, confirm
    sel,     \* the quote file chosen in edit_existing_quote
    loaded,  \* meta, lines, totals, allowances of edit_existing_quote:
             \* what load_quote_from_csv returned to the pass in progress
    op,      \* the last operation and the inputs the claims speak about
    tamper,  \* the one hand edit made to a file, with the rows before it
    call,    \* arguments of the last direct call of compute_totals
    ret,     \* the value that call returned
    html     \* the other files of the job folder, the HTML documents and
             \* the logo: name -> what the file shows

vars == <<disk, prov, pc, sel, loaded, op, tamper, call, ret, html>>

NoTamper == [kind |-> "none"]

Init ==
    /\ disk = EmptyDict
    /\ prov = EmptyDict
    /\ pc = "menu"
    /\ sel = ""
    /\ loaded = NothingLoaded
    /\ op = [name |-> "init"]
    /\ tamper = NoTamper
    /\ call = <<>>
    /\ ret = EmptyDict
    /\ html = EmptyDict

\* save_document_csv that leaves an existing file as it is
SaveDocument_KeepsExisting(files, doc) ==
    LET path == CsvName(doc.job_id, doc.doc_type, doc.doc_date)
    IN  IF path \in DOMAIN files THEN files
        ELSE Put(files, path, save_document_csv(doc))

\* save_document_csv in the job folder: open(path, "w") and the rows
SaveDocument(files, doc) ==
    Put(files, CsvName(doc.job_id, doc.doc_type, doc.doc_date),
        save_document_csv(doc))

\* create_quote_or_invoice, from the pricing-mode prompt to the saved CSV
\* the totals of a new document with the fixed modes summing the lines
CreateTotals_FromLines(doc_type, fixed, lines, amount, receipts_total) ==
    compute_totals(lines, receipts_total)

\* the totals create_quote_or_invoice saves: typed in the fixed modes,
\* computed from the line items otherwise
CreateTotals(doc_type, fixed, lines, amount, receipts_total) ==
    IF doc_type = "quote" /\ fixed
    THEN [subtotal |-> amount, receipts_total |-> 0,
          grand_total |-> amount]
    ELSE IF doc_type = "invoice" /\ fixed
    THEN [subtotal |-> amount, receipts_total |-> receipts_total,
          grand_total |-> FAdd(amount, receipts_total)]
    ELSE compute_totals(lines, receipts_total)

Create(wide, project_name, logoFailures) ==
    /\ pc = "menu"
    /\ DOMAIN disk = {}
    /\ \E doc_type \in DocTypes, fixed \in BOOLEAN,
          allowances \in BuiltAllowances(wide), amount \in FixedAmounts :
       \E lines \in BuiltLines(doc_type, fixed, wide),
          receipts_total \in ReceiptChoices(doc_type),
          logoFails \in logoFailures :
          \E doc \in {[job_id |-> JobId, doc_type |-> doc_type,
                        project_name |-> project_name,
                        project_address |-> "1 Elm",
                        client_name |-> "Ann", lines |-> lines,
                        totals |-> CreateTotals(doc_type, fixed, lines,
                                                amount, receipts_total),
                        allowances |-> allowances,
                        doc_date |-> Today]},
             path \in {CsvName(JobId, doc_type, Today)},
             html_path \in {HtmlName(JobId, doc_type, project_name,
                                     Today)} :
              /\ lines # <<>>
              /\ disk' = SaveDocument(disk, doc)
              /\ prov' = Put(prov, path, [doc |-> <<doc>>, manual |-> {}])
              /\ html' = save_estimate_html(
                            html, html_path,
                            render_estimate_html(doc, fixed), logoFails)
              /\ op' = [name |-> "create", path |-> path, fixed |-> fixed,
                        amount |-> IF fixed THEN amount ELSE 0,
                        saved |-> path, logoFailed |-> logoFails,
                        html |-> html_path]
    /\ UNCHANGED <<pc, sel, loaded, tamper, call, ret>>

CreateDocument(wide) == Create(wide, "Bath", {FALSE})

\* edit_existing_quote lists the quote files and the operator picks one
EditSelect ==
    /\ pc = "menu"
    /\ Cardinality(DOMAIN html) < MaxHtmlFiles
    /\ \E f \in DOMAIN disk :
          /\ IsQuoteCsv(f)
          /\ BackupName(f) \in DOMAIN disk
             \/ Cardinality(DOMAIN disk) < MaxFiles
          /\ sel' = f
    /\ pc' = "selected"
    /\ op' = [name |-> "select"]
    /\ UNCHANGED <<disk, prov, loaded, tamper, call, ret, html>>

\* edit_existing_quote backs the file up, loads it and shows the header
EditLoadWith(csvFails, htmlFails) ==
    /\ pc = "selected"
    /\ csvFails => sel \in DOMAIN disk /\ BackupName(sel) \notin DOMAIN disk
    /\ htmlFails =>
          sel \in DOMAIN disk /\ backup_html(html, sel, FALSE) # html
    /\ disk' = IF csvFails THEN disk
               ELSE backup_original_quote_files(disk, sel)
    /\ prov' = IF csvFails THEN prov
               ELSE backup_original_quote_files(prov, sel)
    /\ loaded' = load_quote_from_csv(FileOrNone(disk, sel))
    /\ pc' = IF DOMAIN loaded'.meta = {} THEN "menu" ELSE "confirm"
    /\ sel' = IF DOMAIN loaded'.meta = {} THEN "" ELSE sel
    /\ html' = IF sel \in DOMAIN disk
               THEN backup_html(html, sel, htmlFails)
               ELSE html
    /\ op' = [name |-> "load", found |-> sel \in DOMAIN disk,
              csvFailed |-> csvFails, htmlFailed |-> htmlFails]
    /\ UNCHANGED <<tamper, call, ret>>

EditLoad == EditLoadWith(FALSE, FALSE)

\* "Edit these values?" answered no
EditDecline ==
    /\ pc = "confirm"
    /\ pc' = "menu"
    /\ sel' = ""
    /\ loaded' = NothingLoaded
    /\ op' = [name |-> "decline"]
    /\ UNCHANGED <<disk, prov, tamper, call, ret, html>>

\* "Edit these values?" answered yes: the header prompts, the save and
\* the naming of the updated file
EditApplyWith(texts, numbers, choices, logoFailures) ==
    /\ pc = "confirm"
    /\ \E project \in texts, receipts \in numbers,
          subtotal \in numbers, grand \in numbers,
          choice \in choices, logoFails \in logoFailures :
          \E inp \in {[project |-> project, client |-> "",
                        address |-> "", date |-> "", receipts |-> receipts,
                        subtotal |-> subtotal, grand |-> grand]} :
          \E r \in {edit_quote_headers_interactive(loaded.meta,
                                                   loaded.totals, inp)} :
          \E job_id \in {IF r.meta.job_id # "" THEN r.meta.job_id
                         ELSE JobId} :
          \E doc \in {[job_id |-> job_id, doc_type |-> "quote",
                        project_name |-> r.meta.project_name,
                        project_address |-> r.meta.project_address,
                        client_name |-> r.meta.client_name,
                        lines |-> loaded.lines, totals |-> r.totals,
                        allowances |-> loaded.allowances,
                        doc_date |-> r.meta.doc_date]},
             path \in {CsvName(job_id, "quote", r.meta.doc_date)},
             html_path \in {HtmlName(job_id, "quote", r.meta.project_name,
                                     r.meta.doc_date)} :
          LET final == IF choice = "1" THEN AddSuffix(path, "_revised")
                       ELSE IF choice = "2" THEN AddSuffix(path, "_new")
                       ELSE path
              hide_line_prices ==
                  \A k \in 1..Len(loaded.lines) :
                     loaded.lines[k].hours = 0 /\ loaded.lines[k].rate = 0
              html_final ==
                  IF choice = "1" THEN HtmlAddSuffix(html_path, "_revised")
                  ELSE IF choice = "2" THEN HtmlAddSuffix(html_path, "_new")
                  ELSE html_path
              typed == {t \in {"subtotal", "grand"} :
                          ParseFloat(inp[t]).ok}
              kept == IF sel \in DOMAIN prov
                      THEN prov[sel].manual \ {"grand"} ELSE {}
          IN  /\ logoFails => LogoName \notin DOMAIN html
              /\ disk' = Replace(SaveDocument(disk, doc), path, final)
              /\ prov' = Replace(Put(prov, path,
                                     [doc |-> <<doc>>,
                                      manual |-> typed \cup kept]),
                                 path, final)
              /\ html' = Replace(
                            save_estimate_html(
                               html, html_path,
                               render_estimate_html(doc, hide_line_prices),
                               logoFails),
                            html_path, html_final)
              /\ op' = [name |-> "apply", path |-> final,
                        subtotal |-> subtotal, grand |-> grand,
                        saved |-> path, existed |-> path \in DOMAIN disk,
                        from |-> sel, html |-> html_final,
                        backupFailed |-> op.csvFailed \/ op.htmlFailed,
                        logoFailed |-> logoFails]
    /\ pc' = "menu"
    /\ sel' = ""
    /\ loaded' = NothingLoaded
    /\ UNCHANGED <<tamper, call, ret>>

EditApply == EditApplyWith(TextInputs, NumberInputs, RenameChoices, {FALSE})

\* ------------------------------------------------- hand edits of a file
\* the numeric cells load_quote_from_csv reads in the file written for doc
NumericCells(doc) ==
    LET n == Len(doc.lines)
    IN  {[row |-> 7, col |-> 2, field |-> "receipts_total", idx |-> 0],
         [row |-> n + 11, col |-> 7, field |-> "subtotal", idx |-> 0],
         [row |-> n + 12, col |-> 7, field |-> "grand_total", idx |-> 0]}
        \cup {[row |-> 9 + k, col |-> 5, field |-> "hours", idx |-> k] :
                 k \in 1..n}
        \cup {[row |-> 9 + k, col |-> 6, field |-> "rate", idx |-> k] :
                 k \in 1..n}
        \cup {[row |-> n + 15 + j, col |-> 2, field |-> "quantity",
               idx |-> j] : j \in 1..Len(doc.allowances)}
        \cup {[row |-> n + 15 + j, col |-> 3, field |-> "unit_cost",
               idx |-> j] : j \in 1..Len(doc.allowances)}

NonNumericTexts == {"n/a", " "}

BlankRows == {<<>>, <<"", "", "", "", "", "", "">>, <<" ">>}

HandEditable(f) ==
    /\ pc = "menu"
    /\ tamper = NoTamper
    /\ DOMAIN disk = {f}
    /\ IsQuoteCsv(f)
    /\ prov[f].doc # <<>>

\* somebody replaces one numeric cell of a saved quote by other text
EnvCorrupt ==
    \E f \in DOMAIN disk :
       /\ HandEditable(f)
       /\ \E c \in NumericCells(prov[f].doc[1]), text \in NonNumericTexts :
             /\ disk' = [disk EXCEPT ![f][c.row][c.col] = text]
             /\ tamper' = [kind |-> "corrupt", file |-> f, cell |-> c,
                           orig |-> disk[f]]
       /\ prov' = [prov EXCEPT ![f].doc = <<>>]
       /\ op' = [name |-> "corrupt"]
       /\ UNCHANGED <<pc, sel, loaded, call, ret, html>>

\* somebody inserts a blank row before the k-th line-item row
EnvInsertBlank ==
    \E f \in DOMAIN disk :
       /\ HandEditable(f)
       /\ \E k \in 1..Len(prov[f].doc[1].lines), row \in BlankRows :
             /\ disk' = [disk EXCEPT
                           ![f] = SubSeq(@, 1, 8 + k) \o <<row>>
                                  \o SubSeq(@, 9 + k, Len(@))]
             /\ tamper' = [kind |-> "blank", file |-> f, at |-> k,
                           row |-> row, orig |-> disk[f]]
       /\ prov' = [prov EXCEPT ![f].doc = <<>>]
       /\ op' = [name |-> "blank"]
       /\ UNCHANGED <<pc, sel, loaded, call, ret, html>>

\* totals somebody may type into a LineTotal cell
OtherTotals == {"7.0"}

\* somebody replaces the LineTotal cell of the k-th line-item row
EnvEditLineTotal ==
    \E f \in DOMAIN disk :
       /\ HandEditable(f)
       /\ \E k \in 1..Len(prov[f].doc[1].lines), text \in OtherTotals :
             /\ disk' = [disk EXCEPT ![f][9 + k][7] = text]
             /\ tamper' = [kind |-> "linetotal", file |-> f, at |-> k,
                           orig |-> disk[f]]
       /\ prov' = [prov EXCEPT ![f].doc = <<>>]
       /\ op' = [name |-> "linetotal"]
       /\ UNCHANGED <<pc, sel, loaded, call, ret, html>>

\* rows whose first cell is no label the decoder knows
UnknownRows ==
    {<<"Note", "call client">>, <<"Memo">>,
     <<"Notes", "", "", "", "", "", "", "9.0">>}

\* the rows of a file written from doc after which a row can be added
\* outside the line-item table and the allowance block: before the first
\* row (0), among the key/value rows, around the totals rows, at the end
OutsideTables(doc) ==
    LET n == Len(doc.lines)
        a == Len(doc.allowances)
    IN  {0, 3, n + 10, n + 12}
        \cup (IF a = 0 THEN {} ELSE {n + 13, n + 16 + a})

\* somebody adds a row with an unknown label outside the tables
EnvInsertUnknown ==
    \E f \in DOMAIN disk :
       /\ HandEditable(f)
       /\ \E p \in OutsideTables(prov[f].doc[1]), row \in UnknownRows :
             /\ disk' = [disk EXCEPT
                           ![f] = SubSeq(@, 1, p) \o <<row>>
                                  \o SubSeq(@, p + 1, Len(@))]
             /\ tamper' = [kind |-> "unknown", file |-> f, at |-> p,
                           row |-> row, orig |-> disk[f]]
       /\ prov' = [prov EXCEPT ![f].doc = <<>>]
       /\ op' = [name |-> "unknown"]
       /\ UNCHANGED <<pc, sel, loaded, call, ret, html>>

\* texts of a Date cell that are no date in the form MM-DD-YYYY
BadDates == {"02-30-2026", "2026-11-06", ""}

\* somebody replaces the value of the Date row
EnvEditDate ==
    \E f \in DOMAIN disk :
       /\ HandEditable(f)
       /\ \E text \in BadDates :
             /\ disk' = [disk EXCEPT ![f][6][2] = text]
             /\ tamper' = [kind |-> "date", file |-> f, text |-> text,
                           orig |-> disk[f]]
       /\ prov' = [prov EXCEPT ![f].doc = <<>>]
       /\ op' = [name |-> "date"]
       /\ UNCHANGED <<pc, sel, loaded, call, ret, html>>

\* dates in the form MM-DD-YYYY somebody may type into the Date row
TypedDates == {"01-05-0999", "1-5-2026"}

\* somebody types another date into the Date row
EnvTypeDate ==
    \E f \in DOMAIN disk :
       /\ HandEditable(f)
       /\ \E text \in TypedDates :
             /\ disk' = [disk EXCEPT ![f][6][2] = text]
             /\ tamper' = [kind |-> "typed", file |-> f, text |-> text,
                           orig |-> disk[f]]
       /\ prov' = [prov EXCEPT ![f].doc = <<>>]
       /\ op' = [name |-> "typed"]
       /\ UNCHANGED <<pc, sel, loaded, call, ret, html>>

\* the chosen file disappears while edit_existing_quote waits for input
EnvRemove ==
    /\ pc = "selected"
    /\ tamper = NoTamper
    /\ sel \in DOMAIN disk
    /\ disk' = Drop(disk, sel)
    /\ prov' = Drop(prov, sel)
    /\ tamper' = [kind |-> "remove", file |-> sel]
    /\ op' = [name |-> "remove"]
    /\ UNCHANGED <<pc, sel, loaded, call, ret, html>>

\* ------------------------------------------------------- specifications
\* the flows of the menu: create a document, edit a quote
Next ==
    \/ CreateDocument(FALSE)
    \/ EditSelect
    \/ EditLoad
    \/ EditDecline
    \/ EditApply

Spec == Init /\ [][Next]_vars

\* the document store: documents of every shape are saved, edited by hand
\* and loaded
StoreNext ==
    \/ CreateDocument(TRUE)
    \/ EditSelect
    \/ EditLoad
    \/ EditDecline
    \/ EnvCorrupt
    \/ EnvInsertBlank
    \/ EnvEditLineTotal
    \/ EnvInsertUnknown
    \/ EnvEditDate
    \/ EnvTypeDate
    \/ EnvRemove

StoreSpec == Init /\ [][StoreNext]_vars

\* compute_totals called on a line list
SumEntries ==
    {EstimateLine("", "Item", "Labor", h, r, "") :
        h \in {1, 2}, r \in {0, 1, Big}}

TotalsInit ==
    /\ Init!1 /\ Init!2 /\ Init!3 /\ Init!4 /\ Init!5 /\ Init!6 /\ Init!7
    /\ Init!10
    /\ call \in [lines : Seqs(SumEntries, MaxSumLines),
                 receipts_total : {0, 2}]
    /\ ret = EmptyDict

ComputeTotals ==
    /\ ret = EmptyDict
    /\ ret' = compute_totals(call.lines, call.receipts_total)
    /\ UNCHANGED <<disk, prov, pc, sel, loaded, op, tamper, call, html>>

TotalsNext == ComputeTotals

TotalsSpec == TotalsInit /\ [][TotalsNext]_vars

\* the job folder as a whole: project names that start with the date, the
\* three ways of naming the updated files, copies that fail
FolderProjects == {"Bath", "11-06-2026 Bath"}

AllRenameChoices == {"1", "2", "3"}

\* a standard quote of one labor line without allowances is created
FolderCreate ==
    /\ \E project_name \in FolderProjects :
          Create(FALSE, project_name, BOOLEAN)
    /\ ~op'.fixed
    /\ prov'[op'.path].doc[1].doc_type = "quote"
    /\ prov'[op'.path].doc[1].allowances = <<>>
    /\ prov'[op'.path].doc[1].lines[1].section = ""

FolderLoad == \E csvFails \in BOOLEAN, htmlFails \in BOOLEAN :
                 EditLoadWith(csvFails, htmlFails)

FolderApply == EditApplyWith(TextInputs, {""}, AllRenameChoices, BOOLEAN)

FolderNext ==
    \/ FolderCreate
    \/ EditSelect
    \/ FolderLoad
    \/ EditDecline
    \/ FolderApply

FolderSpec == Init /\ [][FolderNext]_vars

\* ---------------------------------------------------------------- prompts
\* how often a prompt is shown at most
MaxAsks == 3

\* one pass of the loop of prompt_float; default = <<>> is default None
\* a loop without an answer that ends it is asked again (done = FALSE)
prompt_float_ZeroOnError(raw, default) ==
    IF default # <<>> /\ raw = "" THEN [done |-> TRUE, v |-> default[1]]
    ELSE IF ParseFloat(raw).ok
    THEN [done |-> TRUE, v |-> ParseFloat(raw).v]
    ELSE [done |-> TRUE, v |-> 0]

prompt_float(raw, default) ==
    IF default # <<>> /\ raw = "" THEN [done |-> TRUE, v |-> default[1]]
    ELSE IF ParseFloat(raw).ok
    THEN [done |-> TRUE, v |-> ParseFloat(raw).v]
    ELSE [done |-> FALSE, v |-> 0]

\* one pass of the date loop of edit_quote_headers_interactive
EditDatePass(raw, current) ==
    IF raw = "" THEN [done |-> TRUE, v |-> current]
    ELSE IF parse_mmddyyyy(raw).ok
    THEN [done |-> TRUE, v |-> parse_mmddyyyy(raw).v]
    ELSE [done |-> FALSE, v |-> current]

\* the date log_receipt stores for the answer to its date prompt
ReceiptDate(raw) ==
    IF raw # "" /\ parse_mmddyyyy(raw).ok THEN raw ELSE format_date(Today)

\* one pass of the loop of choose_worker_type
choose_worker_type(choice) ==
    IF choice = "1" THEN [done |-> TRUE, v |-> "Contractor"]
    ELSE IF choice = "2" THEN [done |-> TRUE, v |-> "Carpenter"]
    ELSE IF choice = "3" THEN [done |-> TRUE, v |-> "Laborer"]
    ELSE IF choice = "4" THEN [done |-> TRUE, v |-> "Custom"]
    ELSE [done |-> FALSE, v |-> ""]

NumberAnswers == {"", "3", "x", "1O"}

DateAnswers == {"", "02-29-2024", "02-30-2026", "soon"}

ChoiceAnswers == {"", "1", "4", "5", "a"}

SampleMeta ==
    [doc_type |-> "quote", job_id |-> JobId, project_name |-> "Bath",
     client_name |-> "Ann", project_address |-> "1 Elm",
     doc_date |-> Today]

SampleTotals ==
    {[subtotal |-> 5, receipts_total |-> 2, grand_total |-> 7],
     [subtotal |-> 2, receipts_total |-> 0, grand_total |-> 5]}

\* a prompt is on the screen: call = [prompt, current, asked, last]
PromptInit ==
    /\ Init!1 /\ Init!2 /\ Init!3 /\ Init!4 /\ Init!5 /\ Init!6 /\ Init!7
    /\ Init!10
    /\ call \in
         [prompt : {"prompt_float"}, current : {<<>>, <<5>>},
          asked : {1}, last : {""}]
         \cup [prompt : {"edit_date"}, current : {Today, <<1, 5, 2026>>},
               asked : {1}, last : {""}]
         \cup [prompt : {"edit_totals"}, current : SampleTotals,
               asked : {1},
               last : {[receipts |-> "", subtotal |-> "", grand |-> ""]}]
         \cup [prompt : {"receipt_date", "worker_type"}, current : {<<>>},
               asked : {1}, last : {""}]
    /\ ret = EmptyDict

Waiting(prompt) == call.prompt = prompt /\ ret = EmptyDict

\* the next state of a loop that asks again after a pass that is not done
LoopPass(raw, pass) ==
    /\ pass.done \/ call.asked < MaxAsks
    /\ call' = [call EXCEPT !.last = raw,
                            !.asked = IF pass.done THEN @ ELSE @ + 1]
    /\ ret' = IF pass.done THEN [value |-> pass.v] ELSE EmptyDict
    /\ UNCHANGED <<disk, prov, pc, sel, loaded, op, tamper, html>>

AnswerPromptFloat ==
    /\ Waiting("prompt_float")
    /\ \E raw \in NumberAnswers :
          LoopPass(raw, prompt_float(raw, call.current))

AnswerEditDate ==
    /\ Waiting("edit_date")
    /\ \E raw \in DateAnswers : LoopPass(raw, EditDatePass(raw, call.current))

AnswerWorkerType ==
    /\ Waiting("worker_type")
    /\ \E raw \in ChoiceAnswers : LoopPass(raw, choose_worker_type(raw))

\* the three number prompts of edit_quote_headers_interactive, each shown
\* once
AnswerEditTotals ==
    /\ Waiting("edit_totals")
    /\ \E receipts \in NumberAnswers, subtotal \in NumberAnswers,
          grand \in NumberAnswers :
          LET inp == [project |-> "", client |-> "", address |-> "",
                      date |-> "", receipts |-> receipts,
                      subtotal |-> subtotal, grand |-> grand]
              r == edit_quote_headers_interactive(SampleMeta, call.current,
                                                  inp)
          IN  /\ call' = [call EXCEPT
                            !.last = [receipts |-> receipts,
                                      subtotal |-> subtotal,
                                      grand |-> grand]]
              /\ ret' = [value |-> r.totals]
    /\ UNCHANGED <<disk, prov, pc, sel, loaded, op, tamper, html>>

\* the date prompt of log_receipt, shown once
AnswerReceiptDate ==
    /\ Waiting("receipt_date")
    /\ \E raw \in DateAnswers :
          /\ call' = [call EXCEPT !.last = raw]
          /\ ret' = [value |-> ReceiptDate(raw)]
    /\ UNCHANGED <<disk, prov, pc, sel, loaded, op, tamper, html>>

PromptNext ==
    \/ AnswerPromptFloat
    \/ AnswerEditDate
    \/ AnswerWorkerType
    \/ AnswerEditTotals
    \/ AnswerReceiptDate

PromptSpec == PromptInit /\ [][PromptNext]_vars

\* --------------------------------------------------------------- receipts
MaxReceipts == 3

ReceiptsFile == "J0001_receipts.csv"

ReceiptsHeader == <<"JobID", "Item", "Date", "Cost">>

\* the characters of the receipt texts in code-point order
CodeOrder ==
    "\n\r -0123456789ABCDEFGHIJKLMNOPQRSTUVWXYZabcdefghijklmnopqrstuvwxyz"

\* str < str
RECURSIVE StrLess(_, _)
StrLess(a, b) ==
    IF Len(b) = 0 THEN FALSE
    ELSE IF Len(a) = 0 THEN TRUE
    ELSE IF Head(a) = Head(b) THEN StrLess(Tail(a), Tail(b))
    ELSE IndexOf(CodeOrder, Head(a)) < IndexOf(CodeOrder, Head(b))

\* datetime.date < datetime.date, dates held as <<month, day, year>>
DateLess(a, b) ==
    \/ a[3] < b[3]
    \/ a[3] = b[3] /\ a[1] < b[1]
    \/ a[3] = b[3] /\ a[1] = b[1] /\ a[2] < b[2]

\* row.get(name) or "" of a csv.DictReader row
Field(row, fieldnames, name) ==
    LET at == {k \in 1..Len(fieldnames) : fieldnames[k] = name}
    IN  IF at = {} THEN ""
        ELSE LET k == CHOOSE k \in at : \A j \in at : j <= k
             IN  IF k <= Len(row) THEN row[k] ELSE ""

\* sort_key of reorganize_receipts_file
sort_key(row, fieldnames) ==
    LET date_str == Strip(Field(row, fieldnames, "Date"))
        d == IF parse_mmddyyyy(date_str).ok
             THEN parse_mmddyyyy(date_str).v
             ELSE <<12, 31, 9999>>
    IN  [d |-> d, item |-> Strip(Field(row, fieldnames, "Item"))]

\* tuple comparison of two sort keys
KeyLess(a, b) ==
    \/ DateLess(a.d, b.d)
    \/ a.d = b.d /\ StrLess(a.item, b.item)

\* list.sort(key=sort_key): stable, each row goes after the rows that are
\* not greater
RECURSIVE InsertRow(_, _, _)
InsertRow(row, sorted, fieldnames) ==
    IF sorted = <<>> THEN <<row>>
    ELSE IF KeyLess(sort_key(row, fieldnames),
                    sort_key(Head(sorted), fieldnames))
    THEN <<row>> \o sorted
    ELSE <<Head(sorted)>> \o InsertRow(row, Tail(sorted), fieldnames)

RECURSIVE SortRows(_, _, _)
SortRows(rows, sorted, fieldnames) ==
    IF rows = <<>> THEN sorted
    ELSE SortRows(Tail(rows), InsertRow(Head(rows), sorted, fieldnames),
                  fieldnames)

\* csv.DictWriter.writerows: short rows are filled with "", the first row
\* with more cells than the header raises and ends the writing
RECURSIVE WriteRows(_, _)
WriteRows(rows, fieldnames) ==
    IF rows = <<>> \/ Len(Head(rows)) > Len(fieldnames) THEN <<>>
    ELSE <<[k \in 1..Len(fieldnames) |->
              IF k <= Len(Head(rows)) THEN Head(rows)[k] ELSE ""]>>
         \o WriteRows(Tail(rows), fieldnames)

\* text read from a file opened without newline="": each "\r\n" and each
\* lone "\r" arrives as "\n"
RECURSIVE UniversalNewlines(_)
UniversalNewlines(s) ==
    IF Len(s) = 0 THEN s
    ELSE IF Head(s) = "\r"
    THEN "\n" \o UniversalNewlines(IF Len(s) > 1 /\ Head(Tail(s)) = "\n"
                                   THEN Tail(Tail(s)) ELSE Tail(s))
    ELSE SubSeq(s, 1, 1) \o UniversalNewlines(Tail(s))

\* open(path, "r", encoding="utf-8") handed to csv.DictReader: the cells of
\* the rows as the reader receives them
ReadRows(file) ==
    [i \in 1..Len(file) |->
        [k \in 1..Len(file[i]) |-> UniversalNewlines(file[i][k])]]

\* reorganize_receipts_file on the rows of an existing file
reorganize_receipts_file(file) ==
    LET filled == SelectSeq(ReadRows(file), LAMBDA r : r # <<>>)
    IN  IF Len(filled) < 2 THEN file
        ELSE LET fieldnames == Head(filled)
             IN  <<fieldnames>>
                 \o WriteRows(SortRows(Tail(filled), <<>>, fieldnames),
                              fieldnames)

\* append_receipt_csv: the header is written when the file is new
append_receipt_csv(files, path, job_id, item_name, date_str, cost) ==
    LET row == <<job_id, item_name, date_str, FloatStr(cost)>>
    IN  IF path \in DOMAIN files THEN Append(files[path], row)
        ELSE <<ReceiptsHeader, row>>

ReceiptItems == {"ash", "zinc"}

\* item names a caller of append_receipt_csv may pass
CallItems == {"ash", "nuts\rbolts"}

\* the receipts handed to append_receipt_csv so far, each with the number of
\* times it was handed over
Counted(bag, row) == IF row \in DOMAIN bag THEN bag[row] ELSE 0

BagAdd(bag, row) == Put(bag, row, Counted(bag, row) + 1)

BagRemove(bag, row) ==
    IF Counted(bag, row) > 1 THEN Put(bag, row, bag[row] - 1)
    ELSE Drop(bag, row)

ReceiptDateAnswers == {"", "1-5-2026", "12-31-9999", "soon"}

UnreadableDates == {"soon"}

ReceiptsInit ==
    /\ Init!1 /\ Init!2 /\ Init!3 /\ Init!4 /\ Init!5 /\ Init!6 /\ Init!7
    /\ Init!10
    /\ Init!8 /\ Init!9

\* log_receipt up to the first item prompt
LogStart ==
    /\ pc = "menu"
    /\ pc' = "log"
    /\ op' = [name |-> "log"]
    /\ UNCHANGED <<disk, prov, sel, loaded, tamper, call, ret, html>>

\* one pass of the loop of log_receipt with an item typed
LogItem ==
    /\ pc = "log"
    /\ ReceiptsFile \in DOMAIN disk => Len(disk[ReceiptsFile]) <= MaxReceipts
    /\ \E item_name \in ReceiptItems, raw \in ReceiptDateAnswers :
          LET rows == append_receipt_csv(disk, ReceiptsFile, "J0001",
                                         item_name, ReceiptDate(raw), 1)
          IN  /\ disk' = [f \in DOMAIN disk \cup {ReceiptsFile} |-> rows]
              /\ prov' = BagAdd(prov, rows[Len(rows)])
              /\ op' = [name |-> "append"]
    /\ UNCHANGED <<pc, sel, loaded, tamper, call, ret, html>>

\* append_receipt_csv called on the receipts path
CallAppend ==
    /\ pc = "menu"
    /\ ReceiptsFile \in DOMAIN disk => Len(disk[ReceiptsFile]) <= MaxReceipts
    /\ \E item_name \in CallItems :
          LET rows == append_receipt_csv(disk, ReceiptsFile, "J0001",
                                         item_name, "1-5-2026", 1)
          IN  /\ disk' = [f \in DOMAIN disk \cup {ReceiptsFile} |-> rows]
              /\ prov' = BagAdd(prov, rows[Len(rows)])
              /\ op' = [name |-> "append"]
    /\ UNCHANGED <<pc, sel, loaded, tamper, call, ret, html>>

\* reorganize_receipts_file called on the receipts path
CallReorganize ==
    /\ pc = "menu"
    /\ ReceiptsFile \in DOMAIN disk
    /\ disk' = [f \in DOMAIN disk |-> reorganize_receipts_file(disk[f])]
    /\ op' = [name |-> "reorganize"]
    /\ UNCHANGED <<prov, pc, sel, loaded, tamper, call, ret, html>>

\* ENTER at the item prompt: the loop ends and the file is reorganized
LogFinish ==
    /\ pc = "log"
    /\ pc' = "menu"
    /\ disk' = [f \in DOMAIN disk |-> reorganize_receipts_file(disk[f])]
    /\ op' = [name |-> "reorganize"]
    /\ UNCHANGED <<prov, sel, loaded, tamper, call, ret, html>>

\* between two sessions somebody types over the Date cell of one receipt
EnvEditReceiptDate ==
    /\ pc = "menu"
    /\ ReceiptsFile \in DOMAIN disk
    /\ \E i \in 2..Len(disk[ReceiptsFile]), text \in UnreadableDates :
          /\ disk[ReceiptsFile][i][3] # text
          /\ disk' = [disk EXCEPT ![ReceiptsFile][i][3] = text]
          /\ prov' = BagAdd(BagRemove(prov, disk[ReceiptsFile][i]),
                            [disk[ReceiptsFile][i] EXCEPT ![3] = text])
    /\ op' = [name |-> "hand"]
    /\ UNCHANGED <<pc, sel, loaded, tamper, call, ret, html>>

ReceiptsNext ==
    \/ LogStart
    \/ LogItem
    \/ LogFinish
    \/ CallAppend
    \/ CallReorganize
    \/ EnvEditReceiptDate

ReceiptsSpec == ReceiptsInit /\ [][ReceiptsNext]_vars

\* ---------------------------------------------------------------- job ids
MaxJobNumber == 4

CounterFile == "job_counter.txt"

\* f"{n:04d}"
Pad4(n) ==
    IF n < 10 THEN "000" \o ToString(n)
    ELSE IF n < 100 THEN "00" \o ToString(n)
    ELSE IF n < 1000 THEN "0" \o ToString(n)
    ELSE ToString(n)

\* a reading of folder names that takes only the names of exactly J and
\* four digits
FolderNumber_ExactNameOnly(name) ==
    IF Len(name) = 5 /\ Head(name) = "J" /\ IsDigits(Tail(name))
    THEN DigitsVal(Tail(name), 0)
    ELSE 0

\* the number get_next_job_id reads from a folder name, 0 when it reads none
FolderNumber(name) ==
    LET prefix == SubSeq(name, 1, IF Len(name) < 5 THEN Len(name) ELSE 5)
    IN  IF Len(prefix) = 5 /\ Head(prefix) = "J" /\ IsDigits(Tail(prefix))
        THEN DigitsVal(Tail(prefix), 0)
        ELSE 0

\* the number get_next_job_id reads from job_counter.txt, 0 when it reads
\* none
CounterNumber(root) ==
    IF CounterFile \in DOMAIN root.files
       /\ IsDigits(Strip(root.files[CounterFile]))
    THEN DigitsVal(Strip(root.files[CounterFile]), 0)
    ELSE 0

\* max of a finite set of naturals, 0 for the empty set
MaxOf(S) == IF S = {} THEN 0 ELSE CHOOSE n \in S : \A m \in S : m <= n

\* get_next_job_id that looks at the job folders only
get_next_job_id_FoldersOnly(root) ==
    LET next_n == MaxOf({FolderNumber(name) : name \in root.dirs}) + 1
    IN  [root |-> [root EXCEPT
                     !.files = Put(root.files, CounterFile, ToString(next_n))],
         n |-> next_n,
         id |-> "J" \o Pad4(next_n)]

\* get_next_job_id that looks at job_counter.txt only
get_next_job_id_CounterOnly(root) ==
    LET next_n == CounterNumber(root) + 1
    IN  [root |-> [root EXCEPT
                     !.files = Put(root.files, CounterFile, ToString(next_n))],
         n |-> next_n,
         id |-> "J" \o Pad4(next_n)]

\* get_next_job_id: root is ROOT_BASE_DIR, its folders and its files
get_next_job_id(root) ==
    LET max_n == MaxOf({FolderNumber(name) : name \in root.dirs}
                       \cup {CounterNumber(root)})
        next_n == max_n + 1
    IN  [root |-> [root EXCEPT
                     !.files = Put(root.files, CounterFile, ToString(next_n))],
         n |-> next_n,
         id |-> "J" \o Pad4(next_n)]

\* get_job_folder: os.makedirs(job_dir, exist_ok=True)
get_job_folder(root, job_id, project_name) ==
    LET folder_name == IF project_name # ""
                       THEN job_id \o " - " \o sanitize_name(project_name)
                       ELSE job_id
    IN  [root EXCEPT !.dirs = @ \cup {folder_name}]

ProjectNames == {"", "Deck"}

\* job ids typed at the Job ID prompt of log_receipt
TypedJobIds == {"J0003", "J3"}

\* what somebody may leave in job_counter.txt
CounterTexts == {"1", "3", "x"}

JobInit ==
    /\ disk = [dirs |-> {}, files |-> EmptyDict]
    /\ Init!2 /\ Init!3 /\ Init!4 /\ Init!5 /\ Init!6 /\ Init!7
    /\ Init!8 /\ Init!9 /\ Init!10

\* create_quote_or_invoice for a new job: the call of get_next_job_id
NewJobId ==
    /\ pc = "menu"
    /\ LET r == get_next_job_id(disk)
       IN  /\ r.n <= MaxJobNumber
           /\ disk' = r.root
           /\ ret' = [value |-> r.id]
           /\ prov' = Put(prov, r.id, r.n)
           /\ op' = [name |-> "get_next_job_id", n |-> r.n,
                     was |-> CounterNumber(disk),
                     returned |-> DOMAIN prov]
    /\ pc' = "job_id"
    /\ UNCHANGED <<sel, loaded, tamper, call, html>>

\* create_quote_or_invoice for a new job: the folder of the new job id
NewJobFolder ==
    /\ pc = "job_id"
    /\ \E project_name \in ProjectNames :
          disk' = get_job_folder(disk, ret.value, project_name)
    /\ pc' = "menu"
    /\ op' = [name |-> "get_job_folder"]
    /\ ret' = EmptyDict
    /\ UNCHANGED <<prov, sel, loaded, tamper, call, html>>

\* log_receipt with a job id typed: the folder of that id is made
LogJobFolder ==
    /\ pc = "menu"
    /\ \E job_id \in TypedJobIds :
          /\ job_id \notin disk.dirs
          /\ disk' = get_job_folder(disk, job_id, "")
    /\ op' = [name |-> "get_job_folder"]
    /\ UNCHANGED <<prov, pc, sel, loaded, tamper, call, ret, html>>

\* somebody removes job_counter.txt or types over it
EnvCounter ==
    /\ pc = "menu"
    /\ tamper = NoTamper
    /\ CounterFile \in DOMAIN disk.files
    /\ \/ disk' = [disk EXCEPT !.files = Drop(@, CounterFile)]
       \/ \E text \in CounterTexts :
             /\ disk.files[CounterFile] # text
             /\ disk' = [disk EXCEPT !.files[CounterFile] = text]
    /\ tamper' = [kind |-> "counter"]
    /\ op' = [name |-> "hand"]
    /\ UNCHANGED <<prov, pc, sel, loaded, call, ret, html>>

JobNext == NewJobId \/ NewJobFolder \/ LogJobFolder \/ EnvCounter

JobSpec == JobInit /\ [][JobNext]_vars

\* ----------------------------------------------- the loops of the decoder
MaxLoadRows == 3

\* rows a file may hold
LoadRows ==
    {<<>>,
     <<" ", "">>,
     <<"Section", "Description", "FullDescription", "WorkerType",
       "Hours/Qty", "Rate/UnitPrice", "LineTotal">>,
     <<"", "Demo", "", "Labor", "1.0", "8.0", "8.0">>,
     <<"Subtotal", "", "", "", "", "", "8.0">>,
     <<MARKER>>,
     <<"Paint", "1.0", "2.0", "2.0">>,
     <<"OwnerAllowancesTotal", "", "", "", "2.0">>}

\* one pass of the line-item loop that leaves a row of blank cells where
\* it is
LineRowStep_BlankStays(rows, i, lines) ==
    IF i > Len(rows) \/ rows[i] = <<>> \/ Strip(rows[i][1]) \in Terminators
    THEN [i |-> i, lines |-> lines, at |-> "outer"]
    ELSE IF AllBlank(rows[i])
    THEN [i |-> i, lines |-> lines, at |-> "lines"]
    ELSE [i |-> i + 1, lines |-> Append(lines, RowToLine(rows[i])),
          at |-> "lines"]

\* one test of the line-item loop and the pass it lets in: the loop is
\* left at the end of the rows, at an empty row and at a terminator row
LineRowStep(rows, i, lines) ==
    IF i > Len(rows) \/ rows[i] = <<>> \/ Strip(rows[i][1]) \in Terminators
    THEN [i |-> i, lines |-> lines, at |-> "outer"]
    ELSE IF AllBlank(rows[i])
    THEN [i |-> i + 1, lines |-> lines, at |-> "lines"]
    ELSE [i |-> i + 1, lines |-> Append(lines, RowToLine(rows[i])),
          at |-> "lines"]

\* one test of the allowance loop and the pass it lets in; when the loop is
\* left the outer loop adds its own step
AllowanceRowStep(rows, i, allowances) ==
    IF i > Len(rows)
    THEN [i |-> i + 1, allowances |-> allowances, at |-> "outer"]
    ELSE LET r == rows[i]
         IN  IF r = <<>>
             THEN [i |-> i + 1, allowances |-> allowances,
                   at |-> "allowances"]
             ELSE IF Strip(r[1]) = "OwnerAllowancesTotal"
             THEN [i |-> i + 1, allowances |-> allowances, at |-> "outer"]
             ELSE [i |-> i + 1,
                   allowances |->
                      Append(allowances,
                             OwnerAllowance(Cell(r, 1), NumCell(r, 2),
                                            NumCell(r, 3))),
                   at |-> "allowances"]

\* one test of the outer loop and the pass it lets in, up to the point
\* where an inner loop takes over
OuterRowStep(rows, i, acc) ==
    IF i > Len(rows) THEN [i |-> i, acc |-> acc, at |-> "done"]
    ELSE LET row == rows[i]
         IN  IF row = <<>> THEN [i |-> i + 1, acc |-> acc, at |-> "outer"]
             ELSE IF Strip(row[1]) = "Section"
             THEN [i |-> i + 1, acc |-> acc, at |-> "lines"]
             ELSE IF Strip(row[1]) = MARKER
             THEN [i |-> i + 2, acc |-> acc, at |-> "allowances"]
             ELSE [i |-> i + 1, acc |-> Scan(<<row>>, 1, acc),
                   at |-> "outer"]

\* load_quote_from_csv has read the rows and starts the outer loop
LoadInit ==
    /\ Init!1 /\ Init!2 /\ Init!3 /\ Init!4 /\ Init!5 /\ Init!6 /\ Init!7
    /\ Init!10
    /\ call \in [rows : {<<>>} \cup Seqs(LoadRows, MaxLoadRows),
                 i : {1}, start : {1}, at : {"outer"},
                 acc : {load_quote_from_csv(<<>>)}]
    /\ ret = EmptyDict

OuterStep ==
    /\ call.at = "outer"
    /\ LET t == OuterRowStep(call.rows, call.i, call.acc)
       IN  /\ call' = [call EXCEPT !.i = t.i, !.start = call.i,
                                   !.acc = t.acc, !.at = t.at]
           /\ ret' = IF t.at = "done" THEN t.acc ELSE ret
    /\ UNCHANGED <<disk, prov, pc, sel, loaded, op, tamper, html>>

LineStep ==
    /\ call.at = "lines"
    /\ LET t == LineRowStep(call.rows, call.i, call.acc.lines)
       IN  call' = [call EXCEPT !.i = t.i, !.acc.lines = t.lines,
                                !.at = t.at]
    /\ UNCHANGED <<disk, prov, pc, sel, loaded, op, tamper, ret, html>>

AllowanceStep ==
    /\ call.at = "allowances"
    /\ LET t == AllowanceRowStep(call.rows, call.i, call.acc.allowances)
       IN  call' = [call EXCEPT !.i = t.i, !.acc.allowances = t.allowances,
                                !.at = t.at]
    /\ UNCHANGED <<disk, prov, pc, sel, loaded, op, tamper, ret, html>>

LoadNext == OuterStep \/ LineStep \/ AllowanceStep

\* the interpreter runs the loops as long as there is a step to take
LoadSpec == LoadInit /\ [][LoadNext]_vars /\ WF_vars(LoadNext)

\* --------------------------------------------------------- section order
MaxReorderLines == 3

\* l.section or ""
RECURSIVE SectionOrder(_, _)
SectionOrder(lines, section_order) ==
    IF lines = <<>> THEN section_order
    ELSE SectionOrder(
            Tail(lines),
            IF \E k \in 1..Len(section_order) :
                  section_order[k] = Head(lines).section
            THEN section_order
            ELSE Append(section_order, Head(lines).section))

\* [p.strip() for p in raw.split(",") if p.strip()]
RECURSIVE SplitCommas(_)
SplitCommas(raw) ==
    LET at == IndexOf(raw, ",")
        first == Strip(IF at = 0 THEN raw ELSE SubSeq(raw, 1, at - 1))
        rest == IF at = 0 THEN <<>>
                ELSE SplitCommas(SubSeq(raw, at + 1, Len(raw)))
    IN  IF first = "" THEN rest ELSE <<first>> \o rest

\* int(p): an optional sign and decimal digits; ok = FALSE is ValueError
ParseInt(p) ==
    LET signed == Len(p) > 0 /\ Head(p) \in {"+", "-"}
        digits == IF signed THEN Tail(p) ELSE p
    IN  IF IsDigits(digits)
        THEN [ok |-> TRUE,
              v |-> IF signed /\ Head(p) = "-"
                    THEN 0 - DigitsVal(digits, 0)
                    ELSE DigitsVal(digits, 0)]
        ELSE [ok |-> FALSE, v |-> 0]

\* the checks of the order prompt without the one for repeated numbers
AcceptedOrder_AllowsRepeats(raw, n) ==
    LET parts == SplitCommas(raw)
        indices == [k \in 1..Len(parts) |-> ParseInt(parts[k]).v]
    IN  IF \E k \in 1..Len(parts) : ~ParseInt(parts[k]).ok
        THEN [ok |-> FALSE, indices |-> <<>>]
        ELSE IF Len(indices) # n
        THEN [ok |-> FALSE, indices |-> <<>>]
        ELSE IF ~\A k \in 1..Len(indices) : 1 <= indices[k] /\ indices[k] <= n
        THEN [ok |-> FALSE, indices |-> <<>>]
        ELSE [ok |-> TRUE, indices |-> indices]

\* one pass of the order prompt for n sections: the numbers typed, when
\* they are accepted
AcceptedOrder(raw, n) ==
    LET parts == SplitCommas(raw)
        indices == [k \in 1..Len(parts) |-> ParseInt(parts[k]).v]
    IN  IF \E k \in 1..Len(parts) : ~ParseInt(parts[k]).ok
        THEN [ok |-> FALSE, indices |-> <<>>]
        ELSE IF Len(indices) # n
        THEN [ok |-> FALSE, indices |-> <<>>]
        ELSE IF ~\A k \in 1..Len(indices) : 1 <= indices[k] /\ indices[k] <= n
        THEN [ok |-> FALSE, indices |-> <<>>]
        ELSE IF Cardinality({indices[k] : k \in 1..Len(indices)})
                # Len(indices)
        THEN [ok |-> FALSE, indices |-> <<>>]
        ELSE [ok |-> TRUE, indices |-> indices]

\* new_lines: the lines of each section of new_section_order in turn
RECURSIVE Regroup(_, _)
Regroup(lines, new_section_order) ==
    IF new_section_order = <<>> THEN <<>>
    ELSE SelectSeq(lines, LAMBDA l : l.section = Head(new_section_order))
         \o Regroup(lines, Tail(new_section_order))

\* reorder_sections_interactive with the answer to the yes/no prompt and
\* one answer to the order prompt; done = FALSE when the order is asked again
reorder_sections_interactive(lines, accept, raw) ==
    LET section_order == SectionOrder(lines, <<>>)
        order == AcceptedOrder(raw, Len(section_order))
    IN  IF lines = <<>> \/ Len(section_order) <= 1 \/ ~accept
        THEN [done |-> TRUE, v |-> lines, reordered |-> FALSE]
        ELSE IF ~order.ok
        THEN [done |-> FALSE, v |-> lines, reordered |-> FALSE]
        ELSE [done |-> TRUE,
              v |-> Regroup(lines,
                            [k \in 1..Len(order.indices) |->
                               section_order[order.indices[k]]]),
              reordered |-> TRUE]

ReorderEntries ==
    {EstimateLine("", "Demo", "Labor", 1, 8, ""),
     EstimateLine("Bath", "Tile", "Material", 1, 1, ""),
     EstimateLine("Bath", "Grout", "Material", 1, 1, ""),
     EstimateLine("Deck", "Stain", "Labor", 1, 2, "")}

OrderAnswers ==
    {"", "2,1", "1,2", "2, 1,", "1,1", "2", "3,1,2", "2,3,1", "1,2,3",
     "0,1", "2,x", "-1,2", "1,3"}

ReorderInit ==
    /\ Init!1 /\ Init!2 /\ Init!3 /\ Init!4 /\ Init!5 /\ Init!6 /\ Init!7
    /\ Init!10
    /\ call \in [lines : {<<>>} \cup Seqs(ReorderEntries, MaxReorderLines),
                 asked : {1}, last : {""}, accept : {FALSE}]
    /\ ret = EmptyDict

\* the operator answers the prompts of reorder_sections_interactive
ReorderSections ==
    /\ ret = EmptyDict
    /\ \E accept \in BOOLEAN, raw \in OrderAnswers :
          LET pass == reorder_sections_interactive(call.lines, accept, raw)
          IN  /\ pass.done \/ call.asked < MaxAsks
              /\ call' = [call EXCEPT
                            !.last = raw, !.accept = accept,
                            !.asked = IF pass.done THEN @ ELSE @ + 1]
              /\ ret' = IF pass.done
                        THEN [value |-> pass.v, reordered |-> pass.reordered]
                        ELSE EmptyDict
    /\ UNCHANGED <<disk, prov, pc, sel, loaded, op, tamper, html>>

ReorderNext == ReorderSections

ReorderSpec == ReorderInit /\ [][ReorderNext]_vars

\* ------------------------------------------------------------- claims
\* the document a file was written from, for a file nobody edited by hand
Pristine(f) == f \in DOMAIN disk /\ prov[f].doc # <<>>

WrittenFrom(f) == prov[f].doc[1]

\* edit_existing_quote has loaded the chosen file, which is as it was saved
LoadedPristine == pc = "confirm" /\ Pristine(sel)

\* the file has no allowance block
NoAllowanceBlock(rows) ==
    \A j \in 1..Len(rows) :
        rows[j] = <<>> \/ rows[j][1] # "OwnerAllowancesTotal"

\* C1: for a document D passed to save_document_csv, here one without
\* allowances, loading the written file returns line items equal to D's,
\* in order and field by field, and totals equal to D's.
C1_RoundTrip ==
    (LoadedPristine /\ NoAllowanceBlock(disk[sel])) =>
        /\ loaded.lines = WrittenFrom(sel).lines
        /\ loaded.totals = WrittenFrom(sel).totals

\* the arguments edit_existing_quote would pass to save_document_csv for
\* the loaded values left as they are
DocOfLoaded ==
    [job_id |-> loaded.meta.job_id, doc_type |-> loaded.meta.doc_type,
     project_name |-> loaded.meta.project_name,
     project_address |-> loaded.meta.project_address,
     client_name |-> loaded.meta.client_name, lines |-> loaded.lines,
     totals |-> loaded.totals, allowances |-> loaded.allowances,
     doc_date |-> loaded.meta.doc_date]

\* the rows of a file written for n line items, up to the GrandTotal row
UpToGrandTotal(rows, n) == SubSeq(rows, 1, n + 12)

\* C2: loading a file written by save_document_csv, here for a document
\* without allowances, and saving the loaded values again gives the same
\* metadata rows, line-item rows and Subtotal and GrandTotal rows.
C2_ReEncode ==
    (LoadedPristine /\ NoAllowanceBlock(disk[sel])) =>
        UpToGrandTotal(save_document_csv(DocOfLoaded), Len(loaded.lines))
        = UpToGrandTotal(disk[sel], Len(WrittenFrom(sel).lines))

\* every ordering of a list
Perms(s) ==
    LET n == Len(s)
        Bijections ==
            {f \in [1..n -> 1..n] : \A i, j \in 1..n : f[i] = f[j] => i = j}
    IN  {[i \in 1..n |-> s[f[i]]] : f \in Bijections}

\* the sum of hours x rate in exact arithmetic
RECURSIVE ExactSum(_)
ExactSum(lines) ==
    IF lines = <<>> THEN 0
    ELSE Head(lines).hours * Head(lines).rate + ExactSum(Tail(lines))

\* no product and no partial sum of the list, taken in order, is rounded
ExactRun(lines) ==
    \A k \in 1..Len(lines) :
        /\ Representable(lines[k].hours * lines[k].rate)
        /\ Representable(ExactSum(SubSeq(lines, 1, k)))

Computed == ret # EmptyDict

\* C3 as claimed: the subtotal compute_totals returns, the sum over the
\* line items of hours x rate, is the same for every permutation of the
\* list.
C3_OrderIndependent ==
    Computed =>
        \A p \in Perms(call.lines) :
            compute_totals(p, call.receipts_total).subtotal = ret.subtotal

\* C3 amended: the subtotal compute_totals returns is the sum over the line
\* items of hours x rate, whatever the order of the list, whenever no
\* product and no partial sum in that order is rounded.
C3_ExactSum ==
    Computed =>
        /\ ExactRun(call.lines) => ret.subtotal = ExactSum(call.lines)
        /\ \A p \in Perms(call.lines) :
               ExactRun(p) =>
                   compute_totals(p, call.receipts_total).subtotal
                   = ExactSum(call.lines)

\* three line items of different totals, exact in every order
C3_Witness ==
    /\ Computed
    /\ Len(call.lines) = 3
    /\ \A p \in Perms(call.lines) : ExactRun(p)
    /\ LineTotal(call.lines[1]) # LineTotal(call.lines[2])
    /\ LineTotal(call.lines[3]) > 0
    /\ ret.subtotal = ExactSum(call.lines)
    /\ ret.subtotal > LineTotal(call.lines[1])

\* the last cell of a row
LastCell(r) == r[Len(r)]

\* the totals rows of a file written for n line items
SubtotalRow(rows, n) == rows[n + 11]

GrandTotalRow(rows, n) == rows[n + 12]

ReceiptsRow(rows) == rows[7]

\* the file at path f shows grand total = subtotal + receipts total, and so
\* does the document it was written from
GrandIsSum(f) ==
    LET D == WrittenFrom(f)
        n == Len(D.lines)
    IN  /\ D.totals.grand_total
           = FAdd(D.totals.subtotal, D.totals.receipts_total)
        /\ FloatOrZero(LastCell(GrandTotalRow(disk[f], n)))
           = FAdd(FloatOrZero(LastCell(SubtotalRow(disk[f], n))),
                  FloatOrZero(ReceiptsRow(disk[f])[2]))

\* C4: a document written by create_quote_or_invoice in any of its four
\* modes, and a document written by an edit pass whose grand-total prompt
\* was left empty, has grand_total = subtotal + receipts_total, whatever
\* else the pass changed.
C4_GrandTotal ==
    /\ op.name = "create" => GrandIsSum(op.path)
    /\ (op.name = "apply" /\ op.grand = "") => GrandIsSum(op.path)

\* an edit pass typed a new subtotal, left the grand total empty, and the
\* saved grand total follows the new subtotal and the receipts total
C4_Witness ==
    /\ op.name = "apply" /\ op.grand = "" /\ op.subtotal = "3"
    /\ WrittenFrom(op.path).totals.subtotal = 3
    /\ WrittenFrom(op.path).totals.receipts_total = 3
    /\ WrittenFrom(op.path).totals.grand_total = 6
    /\ SumTotals(WrittenFrom(op.path).lines, 0) # 3

\* no line item of the document has a section that ends the line table
PlainSections(D) ==
    \A k \in 1..Len(D.lines) : D.lines[k].section \notin Terminators

\* C5: two documents that differ only in their allowance list, here with
\* line items that all load, have the same Subtotal and GrandTotal rows
\* when written, and the same subtotal and grand_total when loaded.
C5_AllowancesApart ==
    (LoadedPristine /\ PlainSections(WrittenFrom(sel))) =>
        \A other \in BuiltAllowances(TRUE) :
            LET D == [WrittenFrom(sel) EXCEPT !.allowances = other]
                n == Len(D.lines)
                r == load_quote_from_csv(save_document_csv(D))
            IN  /\ UpToGrandTotal(save_document_csv(D), n)
                   = UpToGrandTotal(disk[sel], n)
                /\ r.totals.subtotal = loaded.totals.subtotal
                /\ r.totals.grand_total = loaded.totals.grand_total

\* edit_existing_quote has loaded the file somebody edited by hand
LoadedTampered(kind) ==
    pc = "confirm" /\ tamper.kind = kind /\ sel = tamper.file

\* the load result r has the field of numeric cell c
HasField(r, c) ==
    IF c.field \in {"hours", "rate"} THEN c.idx <= Len(r.lines)
    ELSE IF c.field \in {"quantity", "unit_cost"}
    THEN c.idx <= Len(r.allowances)
    ELSE c.field \in DOMAIN r.totals

\* the load result r with the field of numeric cell c set to 0.0
ZeroField(r, c) ==
    IF c.field = "hours" THEN [r EXCEPT !.lines[c.idx].hours = 0]
    ELSE IF c.field = "rate" THEN [r EXCEPT !.lines[c.idx].rate = 0]
    ELSE IF c.field = "quantity"
    THEN [r EXCEPT !.allowances[c.idx].quantity = 0]
    ELSE IF c.field = "unit_cost"
    THEN [r EXCEPT !.allowances[c.idx].unit_cost = 0]
    ELSE [r EXCEPT !.totals[c.field] = 0]

\* C6: when one numeric cell of a saved file, here one without allowances,
\* is replaced by non-numeric text, load returns 0.0 for that field and
\* everything else as it returns it for the file before the change.
C6_DegradesToZero ==
    (LoadedTampered("corrupt") /\ NoAllowanceBlock(tamper.orig)) =>
        LET before == load_quote_from_csv(tamper.orig)
        IN  /\ HasField(before, tamper.cell)
            /\ loaded = ZeroField(before, tamper.cell)

\* edit_existing_quote asked for a file that is no longer there
LoadedMissing == op.name = "load" /\ ~op.found

\* C7 as claimed: load on a path that does not exist returns no line items
\* and totals whose subtotal, receipts_total and grand_total are all zero.
C7_ZeroedTotals ==
    LoadedMissing =>
        /\ loaded.lines = <<>>
        /\ DOMAIN loaded.totals
           = {"subtotal", "receipts_total", "grand_total"}
        /\ loaded.totals.subtotal = 0
        /\ loaded.totals.receipts_total = 0
        /\ loaded.totals.grand_total = 0

\* C7 amended: load on a path that does not exist returns empty metadata,
\* no line items, a totals dict without any entry and no allowances;
\* edit_existing_quote then goes back to the menu and writes no file.
C7_NothingLoaded ==
    LoadedMissing =>
        /\ loaded.meta = EmptyDict
        /\ loaded.lines = <<>>
        /\ DOMAIN loaded.totals = {}
        /\ loaded.allowances = <<>>
        /\ pc = "menu"
        /\ tamper.file \notin DOMAIN disk

\* the chosen file was removed before edit_existing_quote loaded it
C7_Witness ==
    /\ LoadedMissing
    /\ tamper.kind = "remove"
    /\ loaded = NothingLoaded
    /\ pc = "menu"

\* the first row from start on that ends the line-item table
TableEnd(rows, start) ==
    LET stops == {j \in start..Len(rows) :
                     rows[j] = <<>> \/ Strip(rows[j][1]) \in Terminators}
    IN  IF stops = {} THEN Len(rows) + 1
        ELSE CHOOSE j \in stops : \A k \in stops : j <= k

\* the line items of the table that starts at row start
TableLines(rows, start) ==
    LET NotBlank(r) == ~AllBlank(r)
        kept == SelectSeq(SubSeq(rows, start, TableEnd(rows, start) - 1),
                          NotBlank)
    IN  [k \in 1..Len(kept) |-> RowToLine(kept[k])]

\* the first row after the header of the line-item table
TableStart(rows) ==
    LET heads == {j \in 1..Len(rows) :
                     rows[j] # <<>> /\ Strip(rows[j][1]) = "Section"}
    IN  IF heads = {} THEN Len(rows) + 1
        ELSE 1 + CHOOSE j \in heads : \A k \in heads : j <= k

\* C8 as claimed: a blank row inside the line-item table, an empty line or
\* a row whose cells are all empty, is skipped and the rows after it are
\* still read as line items.
C8_BlankSkipped ==
    LoadedTampered("blank") =>
        loaded.lines = load_quote_from_csv(tamper.orig).lines

\* C8 amended: the line-item table ends at the first row after its header
\* that has no cells or whose first cell is Subtotal, GrandTotal or the
\* allowance marker, or at the end of the file; a row that has cells, all
\* of them blank, is skipped and the rows after it are still read.
C8_TableEnds ==
    /\ pc = "confirm" => loaded.lines = TableLines(disk[sel], TableStart(disk[sel]))
    /\ LoadedTampered("blank") =>
        LET before == load_quote_from_csv(tamper.orig).lines
            cut == IF tamper.at - 1 < Len(before)
                   THEN tamper.at - 1 ELSE Len(before)
        IN  IF tamper.row = <<>>
            THEN loaded.lines = SubSeq(before, 1, cut)
            ELSE loaded.lines = before

\* a row of empty cells stands before the second line item and both line
\* items are loaded
C8_Witness ==
    /\ LoadedTampered("blank")
    /\ tamper.row # <<>>
    /\ Len(tamper.row) = 7
    /\ tamper.at = 2
    /\ Len(loaded.lines) = 2
    /\ loaded.lines[2].description # ""

\* C9: load returns as subtotal and grand_total the values in the last cell
\* of the file's Subtotal row and GrandTotal row, here for a file without
\* allowances.
C9_StoredTotals ==
    (LoadedPristine /\ NoAllowanceBlock(disk[sel])) =>
        LET n == Len(WrittenFrom(sel).lines)
        IN  /\ loaded.totals.subtotal
               = FloatOrZero(LastCell(SubtotalRow(disk[sel], n)))
            /\ loaded.totals.grand_total
               = FloatOrZero(LastCell(GrandTotalRow(disk[sel], n)))

\* the step of EditApply
ApplyStep == op.name = "load" /\ op'.name = "apply"

\* the value of total t in a totals dict
TotalOf(totals, t) ==
    IF t = "subtotal" THEN totals.subtotal ELSE totals.grand_total

\* C10 as claimed: a total the operator once typed stays: an edit pass in
\* which the prompt of that total is left empty saves the value that was
\* loaded for it.
C10_ManualStays ==
    [][ApplyStep =>
          \A t \in {"subtotal", "grand"} :
              (t \in prov[sel].manual /\ op'[t] = "") =>
                  TotalOf(prov'[op'.path].doc[1].totals, t)
                  = TotalOf(loaded.totals, t)]_vars

\* C10 amended: an edit pass in which no valid subtotal is typed saves the
\* subtotal that was loaded, never one derived from the line items; a grand
\* total typed in the pass is saved as typed, and in a pass in which none is
\* typed the grand total saved is subtotal + receipts_total, whatever grand
\* total was typed in an earlier pass.
C10_SubtotalStays ==
    [][ApplyStep =>
          LET saved == prov'[op'.path].doc[1].totals
              n == Len(loaded.lines)
          IN  /\ ~ParseFloat(op'.subtotal).ok =>
                    /\ saved.subtotal = loaded.totals.subtotal
                    /\ FloatOrZero(LastCell(SubtotalRow(disk'[op'.path], n)))
                       = loaded.totals.subtotal
              /\ ParseFloat(op'.grand).ok =>
                    saved.grand_total = ParseFloat(op'.grand).v
              /\ ~ParseFloat(op'.grand).ok =>
                    saved.grand_total
                    = FAdd(saved.subtotal, saved.receipts_total)]_vars

\* a subtotal typed in an earlier pass, different from the sum of the line
\* items, is on file after a pass in which none was typed
C10_Witness ==
    /\ op.name = "apply" /\ op.subtotal = ""
    /\ "subtotal" \in prov[op.path].manual
    /\ WrittenFrom(op.path).totals.subtotal = 3
    /\ SumTotals(WrittenFrom(op.path).lines, 0) # 3

\* the labels of the key/value rows, in the order of the file
KeyLabels ==
    <<"DocType", "JobID", "Project", "Client", "Address", "Date",
      "ReceiptsTotal">>

\* a totals row: the label, five blank cells, the value in the seventh
TotalsRowOf(r, label, value) ==
    /\ Len(r) = 7
    /\ r[1] = label
    /\ \A k \in 2..6 : r[k] = ""
    /\ ParseFloat(r[7]).ok /\ ParseFloat(r[7]).v = value

\* the rows of the file at f, written from D, up to the GrandTotal row
FixedOrder(rows, D) ==
    LET n == Len(D.lines)
    IN  /\ Len(rows) >= n + 12
        /\ \A k \in 1..7 : Len(rows[k]) = 2 /\ rows[k][1] = KeyLabels[k]
        /\ rows[1][2] = D.doc_type
        /\ rows[2][2] = D.job_id
        /\ rows[3][2] = D.project_name
        /\ rows[4][2] = D.client_name
        /\ rows[5][2] = D.project_address
        /\ Len(rows[6][2]) = 10 /\ parse_mmddyyyy(rows[6][2]).ok
        /\ parse_mmddyyyy(rows[6][2]).v = D.doc_date
        /\ FloatOrZero(rows[7][2]) = D.totals.receipts_total
        /\ rows[8] = <<>>
        /\ Len(rows[9]) = 7 /\ rows[9][1] = "Section"
        /\ \A k \in 1..n :
              /\ Len(rows[9 + k]) = 7
              /\ rows[9 + k][2] = D.lines[k].description
        /\ rows[n + 10] = <<>>
        /\ TotalsRowOf(rows[n + 11], "Subtotal", D.totals.subtotal)
        /\ TotalsRowOf(rows[n + 12], "GrandTotal", D.totals.grand_total)

\* C11: save_document_csv writes the key/value rows DocType, JobID, Project,
\* Client, Address, Date, ReceiptsTotal, a blank row, the seven-column
\* header starting with Section, the line-item rows, a blank row, the
\* Subtotal row and the GrandTotal row, in this order, the two totals rows
\* with their value in the seventh column and five blank cells before it.
C11_FixedOrder ==
    \A f \in DOMAIN disk :
        Pristine(f) => FixedOrder(disk[f], WrittenFrom(f))

\* a written file with two line items and subtotal and grand total apart
C11_Witness ==
    \E f \in DOMAIN disk :
        /\ Pristine(f)
        /\ Len(WrittenFrom(f).lines) = 2
        /\ WrittenFrom(f).totals.subtotal # WrittenFrom(f).totals.grand_total
        /\ disk[f][13][1] = "Subtotal"
        /\ disk[f][14][1] = "GrandTotal"

\* row r is the row of line item l, its LineTotal cell hours x rate
LineRowOf(r, l) ==
    /\ Len(r) = 7
    /\ r[1] = l.section /\ r[2] = l.description /\ r[3] = l.detail
    /\ r[4] = l.worker_type
    /\ ParseFloat(r[5]).ok /\ ParseFloat(r[5]).v = l.hours
    /\ ParseFloat(r[6]).ok /\ ParseFloat(r[6]).v = l.rate
    /\ ParseFloat(r[7]).ok /\ ParseFloat(r[7]).v = FMul(l.hours, l.rate)

\* C12: save_document_csv writes one row per line item, in list order,
\* between the header row and the blank row before Subtotal, each with
\* LineTotal = hours x rate; what load returns does not depend on the
\* LineTotal cell, so a loaded line's total is its loaded hours x rate.
C12_LineRows ==
    /\ \A f \in DOMAIN disk :
          Pristine(f) =>
              LET D == WrittenFrom(f)
                  n == Len(D.lines)
              IN  /\ \A k \in 1..n : LineRowOf(disk[f][9 + k], D.lines[k])
                  /\ disk[f][9] # <<>> /\ disk[f][9][1] = "Section"
                  /\ disk[f][n + 10] = <<>>
    /\ LoadedTampered("linetotal") =>
          /\ loaded = load_quote_from_csv(tamper.orig)
          /\ \A k \in 1..Len(loaded.lines) :
                LineTotal(loaded.lines[k])
                = FMul(loaded.lines[k].hours, loaded.lines[k].rate)

\* the LineTotal cell of the second of two line items says 7.0 and the
\* loaded line's total is not 7
C12_Witness ==
    /\ LoadedTampered("linetotal")
    /\ tamper.at = 2
    /\ Len(loaded.lines) = 2
    /\ disk[sel][11][7] = "7.0"
    /\ LineTotal(loaded.lines[2]) # 7
    /\ LineTotal(loaded.lines[2]) > 0

\* quantity x unit cost of the first k allowances, added up in list order
RECURSIVE AllowanceSum(_, _)
AllowanceSum(allowances, k) ==
    IF k = 0 THEN 0
    ELSE FAdd(AllowanceSum(allowances, k - 1),
              FMul(allowances[k].quantity, allowances[k].unit_cost))

\* row r is the row of allowance a
AllowanceRowOf(r, a) ==
    /\ Len(r) = 4
    /\ r[1] = a.description
    /\ ParseFloat(r[2]).ok /\ ParseFloat(r[2]).v = a.quantity
    /\ ParseFloat(r[3]).ok /\ ParseFloat(r[3]).v = a.unit_cost
    /\ ParseFloat(r[4]).ok
    /\ ParseFloat(r[4]).v = FMul(a.quantity, a.unit_cost)

\* C13: save_document_csv writes the allowance block if and only if the
\* allowance list is not empty; the block is, after the GrandTotal row, a
\* blank row, the marker row, the header Description, Quantity,
\* EstUnitCost, EstTotal, one row per allowance in list order and the
\* OwnerAllowancesTotal row with the sum of quantity x unit_cost.
C13_AllowanceBlock ==
    \A f \in DOMAIN disk :
        Pristine(f) =>
            LET D == WrittenFrom(f)
                n == Len(D.lines)
                a == Len(D.allowances)
                rows == disk[f]
            IN  IF a = 0 THEN Len(rows) = n + 12
                ELSE /\ Len(rows) = n + 16 + a
                     /\ rows[n + 13] = <<>>
                     /\ rows[n + 14] = <<MARKER>>
                     /\ rows[n + 15] = <<"Description", "Quantity",
                                         "EstUnitCost", "EstTotal">>
                     /\ \A j \in 1..a :
                           AllowanceRowOf(rows[n + 15 + j],
                                          D.allowances[j])
                     /\ rows[n + 16 + a][1] = "OwnerAllowancesTotal"
                     /\ ParseFloat(LastCell(rows[n + 16 + a])).ok
                     /\ ParseFloat(LastCell(rows[n + 16 + a])).v
                        = AllowanceSum(D.allowances, a)

\* a file written with two allowances, and its total row
C13_Witness ==
    \E f \in DOMAIN disk :
        /\ Pristine(f)
        /\ Len(WrittenFrom(f).allowances) = 2
        /\ Len(WrittenFrom(f).lines) = 1
        /\ disk[f][19] = <<"OwnerAllowancesTotal", "", "", "", "4.0">>

\* C14: a file written from an allowance list, here for a document whose
\* line items all load, loads back to the same list: description, quantity
\* and unit cost of every allowance, in order, and no allowance made of
\* the OwnerAllowancesTotal row.
C14_AllowancesBack ==
    (LoadedPristine /\ PlainSections(WrittenFrom(sel))) =>
        loaded.allowances = WrittenFrom(sel).allowances

\* C15: a row whose first cell is not a recognised label, added outside
\* the line-item table and the allowance block of a file, here one without
\* allowances, changes nothing of what load returns.
C15_UnknownIgnored ==
    (LoadedTampered("unknown") /\ NoAllowanceBlock(tamper.orig)) =>
        loaded = load_quote_from_csv(tamper.orig)

\* dates in the form MM-DD-YYYY, none of them today
OtherDays == {"02-29-2024", "1-5-2026"}

\* C16: when the value of the Date row is no date in the form MM-DD-YYYY,
\* load returns today's date as doc_date and everything else as it returns
\* it for the same file with a valid date in that row.
C16_BadDate ==
    LoadedTampered("date") =>
        /\ ~parse_mmddyyyy(Strip(disk[sel][6][2])).ok
        /\ loaded.meta.doc_date = Today
        /\ \A day \in OtherDays :
              LET dated == [tamper.orig EXCEPT ![6][2] = day]
                  r == load_quote_from_csv(dated)
              IN  /\ r.meta.doc_date = parse_mmddyyyy(day).v
                  /\ r.meta.doc_date # Today
                  /\ loaded = [r EXCEPT !.meta.doc_date = Today]

\* the Date row says 02-30-2026 and the file loads with today's date and
\* its two line items
C16_Witness ==
    /\ LoadedTampered("date")
    /\ disk[sel][6][2] = "02-30-2026"
    /\ loaded.meta.doc_date = Today
    /\ Len(loaded.lines) = 2
    /\ loaded.totals.grand_total > 0

\* a number prompt answered with text that is no number
BadNumber(a) == a # "" /\ ~ParseFloat(a).ok

\* a date prompt answered with text that is no date
BadDate(a) == a # "" /\ ~parse_mmddyyyy(a).ok

\* the answer a to the prompt of call c is malformed
Malformed(c, a) ==
    IF c.prompt = "prompt_float"
    THEN ~ParseFloat(a).ok /\ ~(c.current # <<>> /\ a = "")
    ELSE IF c.prompt = "edit_totals"
    THEN BadNumber(a.receipts) \/ BadNumber(a.subtotal) \/ BadNumber(a.grand)
    ELSE IF c.prompt = "worker_type" THEN a \notin {"1", "2", "3", "4"}
    ELSE BadDate(a)

\* the prompt is shown again and nothing is returned
AsksAgain == ret' = EmptyDict /\ call'.asked = call.asked + 1

\* C17 as claimed: every prompt for a number, a date or a menu choice
\* answers malformed input by asking again; the input is never accepted or
\* replaced by another value without a new prompt.
C17_AsksAgain ==
    [][Malformed(call, call'.last) => AsksAgain]_vars

\* the prompts that ask again
AskingAgain == {"prompt_float", "edit_date", "worker_type"}

\* C17 amended: prompt_float, the date prompt of the edit pass and the
\* worker-type menu answer malformed input by asking again. The number
\* prompts of the edit pass and the date prompt of log_receipt are shown
\* once: a bad receipts total or subtotal keeps the current value, a bad
\* grand total gives subtotal + receipts_total, a bad receipt date gives
\* today's date.
C17_AsksAgainOrSubstitutes ==
    [][Malformed(call, call'.last) =>
          IF call.prompt \in AskingAgain THEN AsksAgain
          ELSE IF call.prompt = "edit_totals"
          THEN /\ call'.asked = call.asked
               /\ ret' # EmptyDict
               /\ BadNumber(call'.last.receipts) =>
                     ret'.value.receipts_total
                     = call.current.receipts_total
               /\ BadNumber(call'.last.subtotal) =>
                     ret'.value.subtotal = call.current.subtotal
               /\ BadNumber(call'.last.grand) =>
                     ret'.value.grand_total
                     = FAdd(ret'.value.subtotal,
                            ret'.value.receipts_total)
          ELSE /\ call'.asked = call.asked
               /\ ret' = [value |-> format_date(Today)]]_vars

\* prompt_float returned 3 at its third showing, after two answers that
\* were no numbers
C17_Witness ==
    /\ call.prompt = "prompt_float"
    /\ call.asked = 3
    /\ call.last = "3"
    /\ ret = [value |-> 3]

\* C18: a document created in fixed-pricing mode has hours = 0 and rate = 0
\* in every line item and saves as subtotal the amount the operator typed,
\* not the sum of the line items; a fixed quote has grand_total = amount
\* and receipts_total = 0, a fixed invoice grand_total = amount +
\* receipts_total.
C18_FixedPricing ==
    (op.name = "create" /\ op.fixed) =>
        LET D == WrittenFrom(op.path)
            n == Len(D.lines)
        IN  /\ \A k \in 1..n : D.lines[k].hours = 0 /\ D.lines[k].rate = 0
            /\ D.totals.subtotal = op.amount
            /\ FloatOrZero(LastCell(SubtotalRow(disk[op.path], n)))
               = op.amount
            /\ D.doc_type = "quote" =>
                  /\ D.totals.grand_total = op.amount
                  /\ D.totals.receipts_total = 0
            /\ D.doc_type = "invoice" =>
                  /\ D.totals.grand_total
                     = FAdd(op.amount, D.totals.receipts_total)
                  /\ FloatOrZero(LastCell(GrandTotalRow(disk[op.path], n)))
                     = FAdd(op.amount, D.totals.receipts_total)

\* a fixed invoice with receipts: subtotal 5 typed, line items summing to 0
C18_Witness ==
    /\ op.name = "create" /\ op.fixed /\ op.amount = 5
    /\ WrittenFrom(op.path).doc_type = "invoice"
    /\ WrittenFrom(op.path).totals
       = [subtotal |-> 5, receipts_total |-> 2, grand_total |-> 7]
    /\ SumTotals(WrittenFrom(op.path).lines, 0) = 0

\* the data rows of the receipts file and their parsed dates
ReceiptRows == Tail(disk[ReceiptsFile])

ReceiptDay(r) == parse_mmddyyyy(Strip(r[3]))

\* (date, item) of row a is not greater than (date, item) of row b
NotAfter(a, b) ==
    \/ DateLess(ReceiptDay(a).v, ReceiptDay(b).v)
    \/ /\ ReceiptDay(a).v = ReceiptDay(b).v
       /\ ~StrLess(b[2], a[2])

\* C19: after reorganize_receipts_file on a receipts file with a header and
\* at least one data row, the data rows are in non-decreasing order of
\* (Date parsed as MM-DD-YYYY, Item), every row whose Date does not parse
\* comes after all rows with a valid date, and the header row is still
\* JobID, Item, Date, Cost.
C19_SortedByDateItem ==
    (op.name = "reorganize" /\ ReceiptsFile \in DOMAIN disk) =>
        /\ Head(disk[ReceiptsFile]) = ReceiptsHeader
        /\ \A i, j \in 1..Len(ReceiptRows) :
              i < j =>
                 LET a == ReceiptRows[i]
                     b == ReceiptRows[j]
                 IN  /\ ReceiptDay(b).ok => ReceiptDay(a).ok
                     /\ (ReceiptDay(a).ok /\ ReceiptDay(b).ok)
                           => NotAfter(a, b)

\* the number job_counter.txt holds
StoredNumber == CounterNumber(disk)

AfterGetNextJobId == op.name = "get_next_job_id"

\* C20 as stated: after every call of get_next_job_id the number stored in
\* job_counter.txt is the next unused job number, neither the number of a
\* job ID already returned nor the number of an existing job folder.
C20_NextUnused ==
    AfterGetNextJobId =>
        /\ \A id \in DOMAIN prov : prov[id] # StoredNumber
        /\ \A name \in disk.dirs : FolderNumber(name) # StoredNumber

\* C20: after every call of get_next_job_id the number stored in
\* job_counter.txt is the number of the job ID that call returned; it is
\* greater than the number the file held before, than the number of every
\* job ID returned before, and than the number of every existing job folder.
C20_LastUsed ==
    AfterGetNextJobId =>
        /\ disk.files[CounterFile] = ToString(op.n)
        /\ ret.value = "J" \o Pad4(StoredNumber)
        /\ op.was < StoredNumber
        /\ \A id \in op.returned : prov[id] < StoredNumber
        /\ \A name \in disk.dirs : FolderNumber(name) < StoredNumber

\* J0004 returned after J0001, with the folder J0003 of a typed job id on
\* disk and job_counter.txt removed in between
C20_Witness ==
    /\ AfterGetNextJobId
    /\ ret.value = "J0004" /\ disk.files[CounterFile] = "4"
    /\ op.was = 0
    /\ "J0001" \in op.returned
    /\ "J0003" \in disk.dirs

\* a step in which save_document_csv wrote a file that was not renamed
\* afterwards
SaveStep ==
    /\ op'.name \in {"create", "apply"}
    /\ op'.saved = op'.path

\* the files save_estimate_html may write in that step
HtmlWritten(doc) ==
    {HtmlName(doc.job_id, doc.doc_type, doc.project_name, doc.doc_date),
     LogoName}

\* C21: save_document_csv writes exactly one file, at
\* <job_id>_<doc_type>_<MM-DD-YYYY>.csv of the job folder; a file already at
\* that path is replaced by the new document, and no other file of the
\* folder is created, changed or removed.
C21_OneFileWritten ==
    [][SaveStep =>
         LET path == op'.saved
             doc == prov'[path].doc[1]
         IN  /\ path = doc.job_id \o "_" \o doc.doc_type \o "_"
                       \o format_date(doc.doc_date) \o ".csv"
             /\ DOMAIN disk' = DOMAIN disk \cup {path}
             /\ disk'[path] = save_document_csv(doc)
             /\ \A f \in DOMAIN disk \ {path} : disk'[f] = disk[f]
             /\ \A f \in DOMAIN html \ HtmlWritten(doc) :
                   f \in DOMAIN html' /\ html'[f] = html[f]
             /\ DOMAIN html' \subseteq DOMAIN html \cup HtmlWritten(doc)]_vars

\* an edit pass saved over the quote it had loaded: the file holds the
\* second document only, the first is in the backup
C21_Witness ==
    /\ op.name = "apply" /\ op.saved = op.path /\ op.existed
    /\ op.path \in DOMAIN disk /\ BackupName(op.path) \in DOMAIN disk
    /\ disk[op.path] # disk[BackupName(op.path)]
    /\ disk[op.path] = save_document_csv(prov[op.path].doc[1])

\* C22: a failing backup copy of the CSV or of an HTML file and a failing
\* logo copy do not stop the operation they belong to: edit_existing_quote
\* still loads the quote and saves it again, save_estimate_html still writes
\* the HTML file.
C22_AuxiliaryFailures ==
    /\ (op.name = "load" /\ (op.csvFailed \/ op.htmlFailed)) =>
          /\ pc = "confirm"
          /\ loaded = load_quote_from_csv(disk[sel])
          /\ DOMAIN loaded.meta # {}
    /\ (op.name = "apply" /\ op.backupFailed) =>
          /\ op.path \in DOMAIN disk
          /\ disk[op.path] = save_document_csv(prov[op.path].doc[1])
    /\ (op.name \in {"create", "apply"} /\ op.logoFailed) =>
          /\ op.html \in DOMAIN html
          /\ html[op.html].doc = prov[op.path].doc[1]
          /\ LogoName \notin DOMAIN html

\* an edit pass whose CSV backup, HTML backup and logo copy all failed has
\* saved the quote under its new name
C22_Witness ==
    /\ op.name = "apply" /\ op.backupFailed /\ op.logoFailed
    /\ BackupName(op.from) \notin DOMAIN disk
    /\ \A f \in DOMAIN html : ~EndsWith(f, "_original.html")
    /\ op.html \in DOMAIN html
    /\ op.path \in DOMAIN disk

\* the HTML file saved together with the CSV file f
HtmlOf(f) ==
    HtmlName(WrittenFrom(f).job_id, WrittenFrom(f).doc_type,
             WrittenFrom(f).project_name, WrittenFrom(f).doc_date)

\* C23: when edit_existing_quote is about to write the revised CSV and
\* HTML, the job folder holds an _original copy, with the content from
\* before the edit, of the chosen quote CSV and of the HTML file saved
\* together with that CSV; here for a quote with ordinary section names.
C23_BackupsAtSave ==
    (/\ pc = "confirm" /\ Pristine(sel)
     /\ PlainSections(WrittenFrom(sel))
     /\ HtmlOf(sel) \in DOMAIN html) =>
        /\ BackupName(sel) \in DOMAIN disk
        /\ disk[BackupName(sel)] = disk[sel]
        /\ HtmlBackupName(HtmlOf(sel)) \in DOMAIN html
        /\ html[HtmlBackupName(HtmlOf(sel))] = html[HtmlOf(sel)]

\* the numbers of the job folders: the folders named J and four digits or
\* starting with them
JobFolderNumbers(dirs) ==
    {DigitsVal(SubSeq(name, 2, 5), 0) :
        name \in {d \in dirs : /\ StartsWith(d, "J")
                               /\ Len(d) >= 5
                               /\ IsDigits(SubSeq(d, 2, 5))}}

\* the number in job_counter.txt, none when the file is missing or holds
\* something else
CounterNumbers(files) ==
    IF CounterFile \in DOMAIN files /\ IsDigits(Strip(files[CounterFile]))
    THEN {DigitsVal(Strip(files[CounterFile]), 0)}
    ELSE {}

\* C24: get_next_job_id returns J followed by the zero-padded value of
\* max(highest job folder number, number in job_counter.txt, 0) + 1 and
\* writes that number to job_counter.txt.
C24_NextJobId ==
    [][op'.name = "get_next_job_id" =>
         LET m == MaxOf(JobFolderNumbers(disk.dirs)
                        \cup CounterNumbers(disk.files) \cup {0})
         IN  /\ ret'.value = "J" \o Pad4(m + 1)
             /\ disk'.files[CounterFile] = ToString(m + 1)
             /\ disk'.dirs = disk.dirs]_vars

\* the file held 3 with no folder above J0001, and J0004 was returned
C24_Witness ==
    /\ AfterGetNextJobId
    /\ op.was = 3
    /\ disk.dirs # {} /\ \A name \in disk.dirs : FolderNumber(name) <= 1
    /\ ret.value = "J0004" /\ disk.files[CounterFile] = "4"

\* the sections of a line list in order of first appearance, without
\* repetition
Sections(lines) == SectionOrder(lines, <<>>)

\* the lines of one section, in their order
OfSection(lines, sec) == SelectSeq(lines, LAMBDA l : l.section = sec)

\* out is lines in another order
IsPermutation(out, lines) ==
    /\ Len(out) = Len(lines)
    /\ \E p \in [1..Len(lines) -> 1..Len(lines)] :
          /\ \A i, j \in 1..Len(lines) : i # j => p[i] # p[j]
          /\ \A i \in 1..Len(lines) : out[i] = lines[p[i]]

\* the numbers of an answer use every number from 1 to n exactly once
UsesEachOnce(raw, n) ==
    LET parts == SplitCommas(raw)
    IN  /\ Len(parts) = n
        /\ \A k \in 1..n : ParseInt(parts[k]).ok
        /\ \A m \in 1..n :
              Cardinality({k \in 1..n : ParseInt(parts[k]).v = m}) = 1

\* C25: with reordering accepted and a valid order entered,
\* reorder_sections_interactive returns a permutation of the lines in which
\* the lines of one section are contiguous, the sections stand in the order
\* chosen and the lines of one section keep their order; an order is accepted
\* only if it uses every section number exactly once; when the operator
\* declines or there is at most one section the lines come back unchanged.
C25_Reordered ==
    ret # EmptyDict =>
        LET lines == call.lines
            out == ret.value
            n == Len(Sections(lines))
        IN  /\ ret.reordered =>
                 /\ call.accept /\ n > 1
                 /\ UsesEachOnce(call.last, n)
                 /\ IsPermutation(out, lines)
                 /\ \A i, j, k \in 1..Len(out) :
                       (i < j /\ j < k /\ out[i].section = out[k].section)
                          => out[j].section = out[i].section
                 /\ Sections(out)
                    = [k \in 1..n |->
                         Sections(lines)[ParseInt(SplitCommas(call.last)[k]).v]]
                 /\ \A sec \in {lines[i].section : i \in 1..Len(lines)} :
                       OfSection(out, sec) = OfSection(lines, sec)
            /\ (~call.accept \/ n <= 1) => out = lines
            /\ (call.accept /\ n > 1) => ret.reordered

\* Bath, none, Bath: the order 2,1 brings the line without section first and
\* the two Bath lines together
C25_Witness ==
    /\ ret # EmptyDict /\ ret.reordered
    /\ call.last = "2, 1,"
    /\ Len(call.lines) = 3
    /\ call.lines[1].section = "Bath" /\ call.lines[2].section = ""
    /\ call.lines[3].section = "Bath"
    /\ call.lines[1] # call.lines[3]
    /\ ret.value = <<call.lines[2], call.lines[1], call.lines[3]>>

\* the number of a job ID
JobNumber(id) == DigitsVal(Tail(id), 0)

\* C26: every job number get_next_job_id returns is greater than every job
\* number returned earlier and than the number of every job folder existing
\* at the call, so no job ID is handed out twice.
C26_NeverTwice ==
    [][op'.name = "get_next_job_id" =>
         /\ ret'.value \notin DOMAIN prov
         /\ \A id \in DOMAIN prov : JobNumber(id) < JobNumber(ret'.value)
         /\ \A n \in JobFolderNumbers(disk.dirs) : n < JobNumber(ret'.value)
      ]_vars

\* J0004 is returned after J0001 and J0002, with the folder J0003 of a typed
\* job id on disk
C26_Witness ==
    /\ AfterGetNextJobId
    /\ op.returned = {"J0001", "J0002"}
    /\ "J0003" \in disk.dirs
    /\ ret.value = "J0004"
    /\ DOMAIN prov = {"J0001", "J0002", "J0004"}

RowBag(rows) ==
    [r \in {rows[i] : i \in 1..Len(rows)} |->
        Cardinality({i \in 1..Len(rows) : rows[i] = r})]

\* C28: whatever append_receipt_csv and reorganize_receipts_file calls were
\* made on the path, the file starts with the one header row JobID, Item,
\* Date, Cost and its data rows are, with their multiplicities, the receipts
\* appended so far
C28_ReceiptsKept ==
    IF ReceiptsFile \in DOMAIN disk
    THEN LET file == disk[ReceiptsFile]
         IN  /\ Len(file) >= 1
             /\ file[1] = ReceiptsHeader
             /\ \A i \in 2..Len(file) : file[i] # ReceiptsHeader
             /\ RowBag(Tail(file)) = prov
    ELSE prov = EmptyDict

\* save_document_csv called with the four values load_quote_from_csv
\* returned
Resave(v) ==
    save_document_csv([job_id |-> v.meta.job_id,
                       doc_type |-> v.meta.doc_type,
                       project_name |-> v.meta.project_name,
                       project_address |-> v.meta.project_address,
                       client_name |-> v.meta.client_name,
                       lines |-> v.lines,
                       totals |-> v.totals,
                       allowances |-> v.allowances,
                       doc_date |-> v.meta.doc_date])

\* C29: for every file of the folder, written by the program or edited by
\* hand, loading the file that save_document_csv writes from the loaded
\* values returns the same metadata, line items, totals and allowances as
\* loading the file itself
C29_DecodeStable ==
    \A f \in DOMAIN disk :
       LET v == load_quote_from_csv(disk[f])
       IN  load_quote_from_csv(Resave(v)) = v

\* a step of the loops of load_quote_from_csv moves the row index forward:
\* a pass of an inner loop that stays in the loop, and a pass of the outer
\* loop taken with the inner loop it ran
IndexForward ==
    /\ call'.at = call.at /\ call.at # "outer" => call'.i > call.i
    /\ call'.at = "outer" =>
          call'.i > (IF call.at = "outer" THEN call.i ELSE call.start)
    /\ call'.i >= call.i

LoadDone == call.at = "done"

\* what load_quote_from_csv returns for the rows of an existing file
Decoded(rows) == Scan(rows, 1, load_quote_from_csv(<<>>))

\* C30: on every finite list of rows each pass of the outer loop and of the
\* two inner loops moves the row index forward, and load_quote_from_csv
\* comes to its return
C30_Terminates == [][IndexForward]_vars /\ <>LoadDone

C30_Witness ==
    /\ LoadDone
    /\ ret = Decoded(call.rows)
    /\ Len(call.rows) = 3
    /\ call.rows[1] # <<>>
    /\ call.rows[1][1] = "Section"
    /\ call.rows[2] = <<" ", "">>
    /\ call.rows[3] = <<MARKER>>
    /\ call.i = Len(call.rows) + 3

\* the loops return what the decoder returns
LoadAgrees == LoadDone => ret = Decoded(call.rows)
====
